---- MODULE Spec2Model ----
(***************************************************************************)
(* LibraManage: the data-access layer of database.py.                      *)
(*                                                                         *)
(* One SQLite file is shared by the DatabaseHandler objects of Handlers.   *)
(* Handler h was constructed by thread Owner(h); its DatabasePool holds    *)
(* PoolSize connections, all created by that thread with sqlite3's default *)
(* check_same_thread, so a statement executed on them by any other thread  *)
(* raises sqlite3.ProgrammingError.  Statements of different connections   *)
(* interleave under SQLite's WAL rules: readers see the snapshot taken by  *)
(* their first read, one connection at a time holds the write lock, a      *)
(* writer whose snapshot is stale or who waits longer than busy_timeout    *)
(* gets OperationalError "database is locked".                             *)
(***************************************************************************)
EXTENDS Integers, Sequences, FiniteSets, TLC

(***************************************************************************)
(* Python values and strings.  A str is a sequence of one-character        *)
(* strings; a value is tagged with its Python type.                        *)
(***************************************************************************)
Digits == {"0", "1", "2", "3", "4", "5", "6", "7", "8", "9"}

Letters == {"a", "b", "c", "d", "e", "f", "g", "h", "i", "j", "k", "l", "m",
            "n", "o", "p", "q", "r", "s", "t", "u", "v", "w", "x", "y", "z",
            "A", "B", "C", "D", "E", "F", "G", "H", "I", "J", "K", "L", "M",
            "N", "O", "P", "Q", "R", "S", "T", "U", "V", "W", "X", "Y", "Z"}

WordChars == Letters \cup Digits \cup {"_"}

Whitespace == {" "}

DigitValue(ch) ==
    CASE ch = "0" -> 0 [] ch = "1" -> 1 [] ch = "2" -> 2 [] ch = "3" -> 3
      [] ch = "4" -> 4 [] ch = "5" -> 5 [] ch = "6" -> 6 [] ch = "7" -> 7
      [] ch = "8" -> 8 [] ch = "9" -> 9

PyStr(s) == [type |-> "str", s |-> s, n |-> 0]
PyInt(n) == [type |-> "int", s |-> <<>>, n |-> n]
PyNone == [type |-> "NoneType", s |-> <<>>, n |-> 0]

\* str.isdigit(): non-empty and every character a digit.
IsDigitStr(s) == Len(s) > 0 /\ \A i \in 1..Len(s) : s[i] \in Digits

\* str.replace(ch, ''): the string without the occurrences of ch.
RECURSIVE Remove(_, _)
Remove(s, ch) ==
    IF s = <<>> THEN <<>>
    ELSE IF Head(s) = ch THEN Remove(Tail(s), ch)
         ELSE <<Head(s)>> \o Remove(Tail(s), ch)

\* str.strip(): without leading and trailing whitespace.
RECURSIVE LStrip(_)
LStrip(s) ==
    IF s # <<>> /\ Head(s) \in Whitespace THEN LStrip(Tail(s)) ELSE s

RECURSIVE RStrip(_)
RStrip(s) ==
    IF s # <<>> /\ s[Len(s)] \in Whitespace
    THEN RStrip(SubSeq(s, 1, Len(s) - 1)) ELSE s

Strip(s) == RStrip(LStrip(s))

\* The decimal value of a string of digits.
RECURSIVE DecimalValue(_)
DecimalValue(s) ==
    IF s = <<>> THEN 0
    ELSE 10 * DecimalValue(SubSeq(s, 1, Len(s) - 1)) + DigitValue(s[Len(s)])

(***************************************************************************)
(* Results of the validators: exc is "none" when the value is returned.    *)
(***************************************************************************)
Ok(v) == [exc |-> "none", value |-> v]
Raise(e) == [exc |-> e, value |-> PyNone]

\* int(value): a ValueError for a str that is no integer literal, a TypeError
\* for None.
PyIntOf(v) ==
    IF v.type = "int" THEN Ok(v)
    ELSE IF v.type = "str"
    THEN LET t == Strip(v.s)
             signed == t # <<>> /\ Head(t) \in {"+", "-"}
             body == IF signed THEN Tail(t) ELSE t
         IN  IF IsDigitStr(body)
             THEN Ok(PyInt(IF signed /\ Head(t) = "-"
                           THEN 0 - DecimalValue(body) ELSE DecimalValue(body)))
             ELSE Raise("ValueError")
    ELSE Raise("TypeError")

MAX_STRING_LENGTH == 255

\* DataValidator.validate_string with min_length = 1, max_length = 255.
validate_string(value) ==
    IF value.type # "str" THEN Raise("ValidationError")
    ELSE LET v == Strip(value.s)
         IN  IF Len(v) < 1 THEN Raise("ValidationError")
             ELSE IF Len(v) > MAX_STRING_LENGTH THEN Raise("ValidationError")
             ELSE Ok(PyStr(v))

\* As validate_integer, had the comparison with min_value been left out.
validate_integer_NoMinimum(value, min_value) ==
    LET num == PyIntOf(value)
    IN  IF num.exc = "ValueError" THEN Raise("ValidationError") ELSE num

\* DataValidator.validate_integer with min_value given and max_value None:
\* only the ValueError of int() is turned into a ValidationError.
validate_integer(value, min_value) ==
    LET num == PyIntOf(value)
    IN  IF num.exc = "ValueError" THEN Raise("ValidationError")
        ELSE IF num.exc # "none" THEN num
        ELSE IF num.value.n < min_value THEN Raise("ValidationError")
        ELSE num

\* DataValidator.validate_isbn: strips hyphens and spaces, checks the shape;
\* no check digit is computed.
validate_isbn(value) ==
    IF value.type # "str" THEN Raise("ValidationError")
    ELSE LET isbn == Remove(Remove(value.s, "-"), " ")
         IN  IF ~IsDigitStr(Remove(isbn, "X")) \/ (Len(isbn) # 10 /\ Len(isbn) # 13)
             THEN Raise("ValidationError")
             ELSE IF Len(isbn) = 10
             THEN IF ~IsDigitStr(SubSeq(isbn, 1, 9))
                     \/ (isbn[10] # "X" /\ isbn[10] \notin Digits)
                  THEN Raise("ValidationError")
                  ELSE Ok(PyStr(isbn))
             ELSE IF ~IsDigitStr(isbn) THEN Raise("ValidationError")
                  ELSE Ok(PyStr(isbn))

\* utils.validate_email: re.match(r'^[\w\.-]+@[\w\.-]+\.\w+$'); a TypeError
\* for a value that is no str.
EmailMatches(s) ==
    \E i \in 1..Len(s) : \E j \in 1..Len(s) :
        /\ s[i] = "@" /\ i > 1
        /\ \A k \in 1..(i - 1) : s[k] \in WordChars \cup {".", "-"}
        /\ j > i + 1 /\ s[j] = "." /\ j < Len(s)
        /\ \A k \in (i + 1)..(j - 1) : s[k] \in WordChars \cup {".", "-"}
        /\ \A k \in (j + 1)..Len(s) : s[k] \in WordChars

validate_email(value) ==
    IF value.type # "str" THEN Raise("TypeError")
    ELSE IF value.s = <<>> THEN Ok(FALSE)
    ELSE Ok(EmailMatches(value.s))

\* utils.validate_phone: re.match(r'^\+?1?\d{9,15}$').
PhoneMatches(s) ==
    \E p \in 0..2 :
        /\ p <= Len(s)
        /\ SubSeq(s, 1, p) \in {<<>>, <<"+">>, <<"1">>, <<"+", "1">>}
        /\ LET rest == SubSeq(s, p + 1, Len(s))
           IN  IsDigitStr(rest) /\ Len(rest) >= 9 /\ Len(rest) <= 15

validate_phone(value) ==
    IF value.type # "str" THEN Raise("TypeError")
    ELSE IF value.s = <<>> THEN Ok(FALSE)
    ELSE Ok(PhoneMatches(value.s))

\* database.validate_book_data: every exception of a field's validator is
\* re-raised as a ValidationError.
validate_book_data(data) ==
    LET title == validate_string(data.title)
        author == validate_string(data.author)
        isbn == validate_isbn(data.isbn)
        quantity == validate_integer(data.quantity, 0)
        category == validate_string(data.category)
    IN  IF \E r \in {title, author, isbn, quantity, category} : r.exc # "none"
        THEN Raise("ValidationError")
        ELSE Ok([title |-> title.value.s, author |-> author.value.s,
                 isbn |-> isbn.value.s, quantity |-> quantity.value.n,
                 category |-> category.value.s])

\* database.validate_member_data: the e-mail and the phone are stored as given.
validate_member_data(data) ==
    LET name == validate_string(data.name)
        email == validate_email(data.email)
        phone == validate_phone(data.phone)
    IN  IF name.exc # "none" THEN Raise("ValidationError")
        ELSE IF email.exc # "none" \/ ~email.value THEN Raise("ValidationError")
        ELSE IF phone.exc # "none" \/ ~phone.value THEN Raise("ValidationError")
        ELSE Ok([name |-> name.value.s, email |-> data.email.s,
                 phone |-> data.phone.s])

\* The argument checks that open issue_book and return_book.
validate_loan_args(member_id, isbn) ==
    LET m == validate_integer(member_id, 1)
        i == validate_isbn(isbn)
    IN  IF m.exc # "none" THEN Raise(m.exc)
        ELSE IF i.exc # "none" THEN Raise(i.exc)
        ELSE Ok([member_id |-> m.value.n, isbn |-> i.value.s])

(***************************************************************************)
(* Bounds of the model and the inputs the callers draw from.               *)
(***************************************************************************)
PoolSize == 1
MaxQuantity == 2
MaxTransactions == 2

RETRIES == 3

Threads == {"t1", "t2"}
Handlers == {"h1", "h2"}

\* The thread that constructed handler h, and with it the connections of
\* its pool.
Owner(h) == IF h = "h1" THEN "t1" ELSE "t2"

Conns == Handlers \X (1..PoolSize)
NoConn == <<"none", 0>>

ISBN_A == <<"0", "3", "0", "6", "4", "0", "6", "1", "5", "2">>
ISBN_A_HYPHENS == <<"0", "-", "3", "0", "6", "-", "4", "0", "6", "1", "5", "-", "2">>
ISBN_WORD == <<"i", "n", "v", "a", "l", "i", "d">>
ISBN_SHORT == <<"1", "2", "3", "4", "5">>
ISBN_X_FIRST == <<"X", "2", "3", "4", "5", "6", "7", "8", "9", "0">>
ISBN_13_X == <<"9", "7", "8", "0", "4", "4", "1", "0", "1", "3", "5", "9", "X">>

TITLE == <<"D", "u", "n", "e">>
AUTHOR == <<"H", "e", "r", "b", "e", "r", "t">>
CATEGORY == <<"S", "c", "i", "F", "i">>
NAME == <<"A", "n", "n">>
BLANK == <<" ", " ">>
PHONE == <<"1", "2", "3", "4", "5", "6", "7", "8", "9">>
PHONE_LETTERS == <<"1", "2", "3", "4", "5", "6", "7", "8", "a", "b">>
PHONE_SHORT == <<"1", "2", "3", "4", "5">>
EMAIL_A == <<"a", "@", "x", ".", "i", "o">>
EMAIL_B == <<"b", "@", "x", ".", "i", "o">>
EMAIL_NO_AT == <<"i", "n", "v", "a", "l", "i", "d", "-", "e", "m", "a", "i", "l">>
EMAIL_NO_DOT == <<"a", "@", "x">>

ValidIsbnInputs == {PyStr(ISBN_A), PyStr(ISBN_A_HYPHENS)}
MalformedIsbnInputs ==
    {PyStr(ISBN_WORD), PyStr(ISBN_SHORT), PyStr(ISBN_X_FIRST), PyStr(ISBN_13_X),
     PyStr(<<>>), PyNone}

ValidQuantityInputs ==
    {PyInt(q) : q \in 1..MaxQuantity} \cup {PyStr(<<" ", "2">>)}
BadQuantityInputs == {PyInt(0 - 1), PyStr(<<"x">>), PyStr(<<"-", "1">>), PyNone}

ValidMemberIdInputs == {PyInt(1), PyInt(2), PyStr(<<"1">>)}
BadMemberIdInputs == {PyInt(0), PyInt(0 - 1), PyStr(<<"0">>), PyStr(<<"a", "b", "c">>)}

BookData(title, author, isbn, quantity, category) ==
    [title |-> title, author |-> author, isbn |-> isbn, quantity |-> quantity,
     category |-> category]

\* add_book's arguments: well-formed ones, and ones with one bad field.
AddBookInputs ==
    {BookData(PyStr(TITLE), PyStr(AUTHOR), i, q, PyStr(CATEGORY)) :
        i \in ValidIsbnInputs, q \in ValidQuantityInputs}
    \cup {BookData(PyStr(TITLE), PyStr(AUTHOR), i, PyInt(1), PyStr(CATEGORY)) :
            i \in MalformedIsbnInputs}
    \cup {BookData(PyStr(TITLE), PyStr(AUTHOR), PyStr(ISBN_A), q, PyStr(CATEGORY)) :
            q \in BadQuantityInputs}
    \cup {BookData(PyStr(BLANK), PyStr(AUTHOR), PyStr(ISBN_A), PyInt(1), PyStr(CATEGORY)),
          BookData(PyStr(TITLE), PyStr(<<>>), PyStr(ISBN_A), PyInt(1), PyStr(CATEGORY)),
          BookData(PyStr(TITLE), PyStr(AUTHOR), PyStr(ISBN_A), PyInt(1), PyNone)}

MemberData(name, email, phone) == [name |-> name, email |-> email, phone |-> phone]

AddMemberInputs ==
    {MemberData(PyStr(NAME), PyStr(e), PyStr(PHONE)) : e \in {EMAIL_A, EMAIL_B}}
    \cup {MemberData(PyStr(NAME), e, PyStr(PHONE)) :
            e \in {PyStr(EMAIL_NO_AT), PyStr(EMAIL_NO_DOT), PyStr(<<>>), PyNone}}
    \cup {MemberData(PyStr(NAME), PyStr(EMAIL_A), p) :
            p \in {PyStr(PHONE_LETTERS), PyStr(PHONE_SHORT), PyStr(<<>>)}}
    \cup {MemberData(PyStr(BLANK), PyStr(EMAIL_A), PyStr(PHONE)),
          MemberData(PyNone, PyStr(EMAIL_A), PyStr(PHONE))}

LoanArgs(member_id, isbn) == [member_id |-> member_id, isbn |-> isbn]

\* The arguments of issue_book and of return_book.
LoanInputs ==
    {LoanArgs(m, i) : m \in ValidMemberIdInputs, i \in ValidIsbnInputs}
    \cup {LoanArgs(m, PyStr(ISBN_A)) : m \in BadMemberIdInputs \cup {PyNone}}
    \cup {LoanArgs(PyInt(1), i) : i \in MalformedIsbnInputs}

(***************************************************************************)
(* The state.                                                              *)
(***************************************************************************)
VARIABLES
    db,       \* the committed tables: books, members, transactions
    wlock,    \* the connection holding SQLite's write lock, or NoConn
    txn,      \* per connection: its open transaction and what it sees
    pool,     \* per handler: the queue of idle connections
    pc,       \* per thread: where its call stands
    call,     \* per thread: the operation called, its handler and arguments
    conn,     \* per thread: the connection it holds, or NoConn
    attempt,  \* per thread: the attempt number inside _execute_with_retry
    retry,    \* per thread: the invocations of the operation and the sleeps
    loc,      \* per thread: the ids read by the operation's SELECTs
    outcome,  \* per thread: the pending exception, then the call's result
    now,        \* time.time(), in seconds since the model began
    start_time, \* Session.start_time of the session of the user logged in
    calls,      \* the list "calls" of rate_limit: when each call was admitted
    notified    \* when the body of notify_overdue_books ran, for the record

\* The objects in memory that no DatabaseHandler operation touches.
mem == <<now, start_time, calls, notified>>

vars == <<db, wlock, txn, pool, pc, call, conn, attempt, retry, loc, outcome,
          now, start_time, calls, notified>>

LOCKED == "OperationalError: database is locked"
IO_ERROR == "OperationalError: disk I/O error"

NoTxn == [mode |-> "none", view |-> <<>>]
NoCall == [op |-> "none"]
NoLoc == [book_id |-> 0, loan_id |-> 0]
NoRetry == [invoked |-> 0, slept |-> <<>>]

\* hash_password: an Argon2 hash of the password under a fresh salt.
hash_password(password, salt) ==
    [alg |-> "argon2id", salt |-> salt, digest |-> <<salt, password>>]

\* verify_password: PasswordHasher.verify recomputes the digest under the
\* salt of the hash; a mismatch or a malformed hash gives False.
verify_password(password, hash) ==
    hash.alg = "argon2id" /\ hash.digest = <<hash.salt, password>>

\* The default account of create_default_user: username, password and role
\* are all "1".
ADMIN == <<"1">>
SALTS == {"s1", "s2"}

\* A row of users as INSERT INTO users (username, password_hash, role)
\* stores it: AUTOINCREMENT id, login_attempts DEFAULT 0.
UserRow(users, username, password_hash, role) ==
    [id |-> Len(users) + 1, username |-> username,
     password_hash |-> password_hash, role |-> role, login_attempts |-> 0]

\* The tables create_tables creates, and the column it adds to users.
Tables == {"users", "books", "members", "transactions", "loans"}
FullSchema == Tables \cup {"users.login_attempts"}

\* The tables of a database file on which a handler has been constructed:
\* the schema is complete, the default account is stored, no other row is.
EmptyDb ==
    [books |-> <<>>, members |-> <<>>, transactions |-> <<>>, loans |-> <<>>,
     users |-> <<UserRow(<<>>, ADMIN, hash_password(ADMIN, "s1"), ADMIN)>>,
     schema |-> FullSchema]

Init ==
    /\ db = EmptyDb
    /\ wlock = NoConn
    /\ txn = [c \in Conns |-> NoTxn]
    /\ pool = [h \in Handlers |-> [i \in 1..PoolSize |-> i]]
    /\ pc = [t \in Threads |-> "idle"]
    /\ call = [t \in Threads |-> NoCall]
    /\ conn = [t \in Threads |-> NoConn]
    /\ attempt = [t \in Threads |-> 0]
    /\ retry = [t \in Threads |-> NoRetry]
    /\ loc = [t \in Threads |-> NoLoc]
    /\ outcome = [t \in Threads |-> "none"]
    /\ now = 0
    /\ start_time = 0
    /\ calls = <<>>
    /\ notified = <<>>

(***************************************************************************)
(* The tables as a connection sees them, and the SQL statements.           *)
(***************************************************************************)
Min(S) == CHOOSE x \in S : \A y \in S : x <= y

\* SELECT id FROM books WHERE isbn = ?  (0: no row).
BookIdByIsbn(v, isbn) ==
    LET ids == {i \in 1..Len(v.books) : v.books[i].isbn = isbn}
    IN  IF ids = {} THEN 0 ELSE Min(ids)

\* SELECT id FROM members WHERE email = ?
MemberIdByEmail(v, email) ==
    LET ids == {i \in 1..Len(v.members) : v.members[i].email = email}
    IN  IF ids = {} THEN 0 ELSE Min(ids)

\* SELECT id FROM members WHERE id = ?
MemberExists(v, member_id) == member_id \in 1..Len(v.members)

\* As OpenLoans, had the query left out "AND return_date IS NULL".
OpenLoans_AnyReturnDate(v, member_id, book_id) ==
    {i \in 1..Len(v.transactions) :
        /\ v.transactions[i].member_id = member_id
        /\ v.transactions[i].book_id = book_id}

\* The rows of transactions with return_date IS NULL for a member and a book.
OpenLoans(v, member_id, book_id) ==
    {i \in 1..Len(v.transactions) :
        /\ v.transactions[i].member_id = member_id
        /\ v.transactions[i].book_id = book_id
        /\ v.transactions[i].return_date = "NULL"}

\* As add_book_check, had the duplicate SELECT been left to the UNIQUE
\* constraint.
add_book_check_Missing(v, data) == "none"

\* add_book's duplicate check.
add_book_check(v, data) ==
    IF BookIdByIsbn(v, data.isbn) # 0 THEN "ValidationError" ELSE "none"

\* As add_book_insert, had available started at 0.
add_book_insert_NoneAvailable(v, data) ==
    [v EXCEPT !.books = Append(@,
        [title |-> data.title, author |-> data.author, isbn |-> data.isbn,
         quantity |-> data.quantity, available |-> 0,
         category |-> data.category])]

\* add_book's INSERT: available starts as quantity.
add_book_insert(v, data) ==
    [v EXCEPT !.books = Append(@,
        [title |-> data.title, author |-> data.author, isbn |-> data.isbn,
         quantity |-> data.quantity, available |-> data.quantity,
         category |-> data.category])]

\* get_active_loans(): SELECT COUNT(*) FROM transactions WHERE return_date
\* IS NULL.
get_active_loans(v) ==
    Cardinality({i \in 1..Len(v.transactions) :
                    v.transactions[i].return_date = "NULL"})

\* add_member's duplicate check.
add_member_check(v, data) ==
    IF MemberIdByEmail(v, data.email) # 0 THEN "ValidationError" ELSE "none"

\* add_member's INSERT.
add_member_insert(v, data) ==
    [v EXCEPT !.members = Append(@,
        [name |-> data.name, email |-> data.email, phone |-> data.phone])]

\* As issue_book_update, had it neither checked available nor guarded the
\* UPDATE with "AND available > 0".
issue_book_update_Unguarded(v, member_id, isbn) ==
    LET book_id == BookIdByIsbn(v, isbn)
    IN  IF book_id = 0 THEN [exc |-> "ValidationError", view |-> v, book_id |-> 0]
        ELSE IF ~MemberExists(v, member_id)
        THEN [exc |-> "ValidationError", view |-> v, book_id |-> book_id]
        ELSE [exc |-> "none",
              view |-> [v EXCEPT !.books[book_id].available = @ - 1],
              book_id |-> book_id]

\* issue_book between BEGIN IMMEDIATE and the INSERT: the book and member
\* look-ups and the guarded decrement.
issue_book_update(v, member_id, isbn) ==
    LET book_id == BookIdByIsbn(v, isbn)
    IN  IF book_id = 0 THEN [exc |-> "ValidationError", view |-> v, book_id |-> 0]
        ELSE IF v.books[book_id].available <= 0
        THEN [exc |-> "ValidationError", view |-> v, book_id |-> book_id]
        ELSE IF ~MemberExists(v, member_id)
        THEN [exc |-> "ValidationError", view |-> v, book_id |-> book_id]
        ELSE LET rowcount == IF v.books[book_id].available > 0 THEN 1 ELSE 0
             IN  IF rowcount # 1
                 THEN [exc |-> "ValidationError", view |-> v, book_id |-> book_id]
                 ELSE [exc |-> "none",
                       view |-> [v EXCEPT !.books[book_id].available = @ - 1],
                       book_id |-> book_id]

\* issue_book's INSERT of the loan row.
\* As issue_book_insert, had the INSERT left the status column out.
issue_book_insert_NoStatus(v, book_id, member_id) ==
    [v EXCEPT !.transactions = Append(@,
        [book_id |-> book_id, member_id |-> member_id, return_date |-> "NULL",
         status |-> "NULL"])]

issue_book_insert(v, book_id, member_id) ==
    [v EXCEPT !.transactions = Append(@,
        [book_id |-> book_id, member_id |-> member_id, return_date |-> "NULL",
         status |-> "issued"])]

\* return_book's look-ups: the book, then the member's open loan of it
\* (fetchone: the first row in rowid order).
return_book_select(v, member_id, isbn) ==
    LET book_id == BookIdByIsbn(v, isbn)
        loans == OpenLoans(v, member_id, book_id)
    IN  IF book_id = 0 THEN [exc |-> "ValidationError", book_id |-> 0, loan_id |-> 0]
        ELSE IF loans = {}
        THEN [exc |-> "ValidationError", book_id |-> book_id, loan_id |-> 0]
        ELSE [exc |-> "none", book_id |-> book_id, loan_id |-> Min(loans)]

\* As return_book_update, had the UPDATE of books had no WHERE clause.
return_book_update_AllBooks(v, book_id, loan_id) ==
    [v EXCEPT !.transactions[loan_id].return_date = "set",
              !.transactions[loan_id].status = "returned",
              !.books = [b \in 1..Len(v.books) |->
                            [v.books[b] EXCEPT !.available = @ + 1]]]

\* As return_book_update, had it left out the UPDATE of books.
return_book_update_LoanOnly(v, book_id, loan_id) ==
    [v EXCEPT !.transactions[loan_id].return_date = "set",
              !.transactions[loan_id].status = "returned"]

\* return_book's two UPDATEs.
return_book_update(v, book_id, loan_id) ==
    [v EXCEPT !.transactions[loan_id].return_date = "set",
              !.transactions[loan_id].status = "returned",
              !.books[book_id].available = @ + 1]

(***************************************************************************)
(* SQLite: transactions of a connection c.                                 *)
(***************************************************************************)
\* What a statement on c reads: its transaction's view, or the committed
\* tables in autocommit mode.
View(c) == IF txn[c].mode = "none" THEN db ELSE txn[c].view

\* As CanWrite, had a transaction been let to write on a snapshot that
\* another connection's commit has outdated.
CanWrite_StaleSnapshot(c) == wlock \in {NoConn, c}

\* c may take (or already has) the write lock, and its snapshot is current.
CanWrite(c) ==
    /\ wlock \in {NoConn, c}
    /\ txn[c].mode = "read" => txn[c].view = db

\* conn.commit() with the transactions tx: c's writes become the committed
\* tables.
commit(tx, c) ==
    IF tx[c].mode = "write"
    THEN [db |-> tx[c].view, wlock |-> NoConn, txn |-> [tx EXCEPT ![c] = NoTxn]]
    ELSE [db |-> db, wlock |-> wlock, txn |-> [tx EXCEPT ![c] = NoTxn]]

\* As rollback, had the except clause re-raised without conn.rollback().
rollback_Missing(c) == [db |-> db, wlock |-> wlock, txn |-> txn]

\* As rollback, had the except clause committed what the transaction wrote.
rollback_KeepsWrites(c) == commit(txn, c)

\* conn.rollback(): the transaction's writes are dropped.
rollback(c) ==
    [db |-> db, wlock |-> IF wlock = c THEN NoConn ELSE wlock,
     txn |-> [txn EXCEPT ![c] = NoTxn]]

\* The store after s, the result of a commit or a rollback.
StoreBecomes(s) == db' = s.db /\ wlock' = s.wlock /\ txn' = s.txn

(***************************************************************************)
(* The calls.  A call validates its arguments, then runs its operation     *)
(* through _execute_with_retry, one statement (or one group of statements  *)
(* no other connection can tell apart) per step.                           *)
(***************************************************************************)
InFlight(op) == Cardinality({t \in Threads : call[t].op = op /\ pc[t] # "done"})

\* Whether the key of an add_book or add_member call, the ISBN or the e-mail,
\* is stored when the call is made.
KeyStored(op, r) ==
    /\ r.exc = "none"
    /\ \/ op = "add_book" /\ BookIdByIsbn(db, r.value.isbn) # 0
       \/ op = "add_member" /\ MemberIdByEmail(db, r.value.email) # 0

\* A call of op on handler h with the arguments raw, whose validation gave r:
\* it fails at once, or it goes on to acquire a connection with the validated
\* arguments.  The call remembers whether its key was stored when it began.
Start(t, h, op, raw, r) ==
    /\ pc[t] = "idle"
    /\ attempt' = [attempt EXCEPT ![t] = 0]
    /\ retry' = [retry EXCEPT ![t] = NoRetry]
    /\ IF r.exc # "none"
       THEN /\ pc' = [pc EXCEPT ![t] = "done"]
            /\ outcome' = [outcome EXCEPT ![t] = r.exc]
       ELSE /\ pc' = [pc EXCEPT ![t] = "acquire"]
            /\ outcome' = [outcome EXCEPT ![t] = "none"]
    /\ call' = [call EXCEPT ![t] = [op |-> op, h |-> h, raw |-> raw,
                                    args |-> r.value,
                                    stored |-> KeyStored(op, r)]]
    /\ UNCHANGED <<db, wlock, txn, pool, conn, loc>>
    /\ UNCHANGED mem

\* The calls a caller may make, each with the result of its validation.
AddBookCalls ==
    {[raw |-> x, r |-> validate_book_data(x)] : x \in AddBookInputs}
AddMemberCalls ==
    {[raw |-> x, r |-> validate_member_data(x)] : x \in AddMemberInputs}
LoanCalls ==
    {[raw |-> x, r |-> validate_loan_args(x.member_id, x.isbn)] : x \in LoanInputs}

WellFormed(cs) == {c \in cs : c.r.exc = "none"}

\* The calls of concurrent callers: well-formed and numbers given as int;
\* add_book with one copy of the ISBN as stored, or with MaxQuantity copies
\* of the ISBN with hyphens; add_member with one e-mail, so that member 1
\* exists at most and member 2 never; the other calls with the ISBN as
\* stored.
ConcurrentAddBookCalls ==
    {c \in WellFormed(AddBookCalls) :
        \/ c.raw.quantity = PyInt(1) /\ c.raw.isbn.s = c.r.value.isbn
        \/ c.raw.quantity = PyInt(MaxQuantity) /\ c.raw.isbn.s # c.r.value.isbn}
ConcurrentAddMemberCalls ==
    {c \in WellFormed(AddMemberCalls) : c.raw.email.s = EMAIL_A}
ConcurrentLoanCalls ==
    {c \in WellFormed(LoanCalls) :
        c.raw.member_id.type = "int" /\ c.raw.isbn.s = c.r.value.isbn}

\* On a handler another thread constructed every call ends in the PRAGMAs of
\* get_connection, whatever its arguments: one well-formed call stands for all.
OnHandler(t, h, cs) ==
    IF Owner(h) = t \/ WellFormed(cs) = {} THEN cs
    ELSE {CHOOSE c \in WellFormed(cs) : TRUE}

CallAddBook(t, cs) ==
    \E h \in Handlers : \E c \in OnHandler(t, h, cs) :
        Start(t, h, "add_book", c.raw, c.r)

CallAddMember(t, cs) ==
    \E h \in Handlers : \E c \in OnHandler(t, h, cs) :
        Start(t, h, "add_member", c.raw, c.r)

\* (The model stops at MaxTransactions loan rows: a call that would add one
\* more is not made; calls that fail are always made.)
CallIssueBook(t, cs) ==
    \E h \in Handlers : \E c \in OnHandler(t, h, cs) :
        /\ IF c.r.exc # "none" THEN TRUE
           ELSE \/ Len(db.transactions) + InFlight("issue_book") < MaxTransactions
                \/ issue_book_update(db, c.r.value.member_id,
                                     c.r.value.isbn).exc # "none"
        /\ Start(t, h, "issue_book", c.raw, c.r)

CallReturnBook(t, cs) ==
    \E h \in Handlers : \E c \in OnHandler(t, h, cs) :
        Start(t, h, "return_book", c.raw, c.r)

\* The first step of an operation on its connection.
FirstStep(op) ==
    CASE op = "add_book" -> "add_book:select"
      [] op = "add_member" -> "add_member:select"
      [] op = "issue_book" -> "issue_book:begin"
      [] op = "return_book" -> "return_book:select"
      [] op = "authenticate_user" -> "authenticate_user:select"

\* A step of thread t that ends the operation on its connection with e
\* ("none": it returned).
Leave(t, e) ==
    /\ pc' = [pc EXCEPT ![t] = "release"]
    /\ outcome' = [outcome EXCEPT ![t] = e]

\* As Acquire, had get_connection read the head of the queue without taking
\* it out.
Acquire_LeavesInQueue(t) ==
    /\ pc[t] = "acquire"
    /\ pool[call[t].h] # <<>>
    /\ LET c == <<call[t].h, Head(pool[call[t].h])>>
       IN  /\ conn' = [conn EXCEPT ![t] = c]
           /\ IF Owner(call[t].h) = t
              THEN /\ pc' = [pc EXCEPT ![t] = FirstStep(call[t].op)]
                   /\ retry' = [retry EXCEPT ![t].invoked = @ + 1]
                   /\ UNCHANGED outcome
              ELSE Leave(t, "ProgrammingError") /\ UNCHANGED retry
    /\ UNCHANGED <<db, wlock, txn, pool, call, attempt, loc>>
    /\ UNCHANGED mem

\* DatabasePool.get_connection up to the yield: pool.get() blocks while the
\* queue is empty; the PRAGMAs raise ProgrammingError on a connection that
\* another thread created.
Acquire(t) ==
    /\ pc[t] = "acquire"
    /\ pool[call[t].h] # <<>>
    /\ LET c == <<call[t].h, Head(pool[call[t].h])>>
       IN  /\ conn' = [conn EXCEPT ![t] = c]
           /\ pool' = [pool EXCEPT ![call[t].h] = Tail(@)]
           /\ IF Owner(call[t].h) = t
              THEN /\ pc' = [pc EXCEPT ![t] = FirstStep(call[t].op)]
                   /\ retry' = [retry EXCEPT ![t].invoked = @ + 1]
                   /\ UNCHANGED outcome
              ELSE Leave(t, "ProgrammingError") /\ UNCHANGED retry
    /\ UNCHANGED <<db, wlock, txn, call, attempt, loc>>
    /\ UNCHANGED mem

\* time.sleep(0.5 * (attempt + 1)), in tenths of a second.
Backoff_Constant(n) == 5

Backoff(n) == 5 * (n + 1)

\* As Retried, had the loop gone on after an attempt that returned.
Retried_AfterReturn(e, n) == e \in {LOCKED, "none"} /\ n < RETRIES - 1

\* As Retried, had the loop not been bounded by retries.
Retried_Unbounded(e, n) == e = LOCKED

\* As Retried, had every OperationalError been retried.
Retried_AnyOperationalError(e, n) == e \in {LOCKED, IO_ERROR} /\ n < RETRIES - 1

\* The retry decision of _execute_with_retry for the exception e of an attempt.
Retried(e, n) == e = LOCKED /\ n < RETRIES - 1

\* As Release, had get_connection put the connection back after the yield
\* without a finally: an exception leaves the scope with the connection.
Release_NoFinally(t) ==
    /\ pc[t] = "release"
    /\ pool' = IF outcome[t] = "none"
               THEN [pool EXCEPT ![conn[t][1]] = Append(@, conn[t][2])]
               ELSE pool
    /\ conn' = [conn EXCEPT ![t] = NoConn]
    /\ loc' = [loc EXCEPT ![t] = NoLoc]
    /\ IF Retried(outcome[t], attempt[t])
       THEN /\ retry' = [retry EXCEPT ![t].slept = Append(@, Backoff(attempt[t]))]
            /\ attempt' = [attempt EXCEPT ![t] = @ + 1]
            /\ outcome' = [outcome EXCEPT ![t] = "none"]
            /\ pc' = [pc EXCEPT ![t] = "acquire"]
            /\ UNCHANGED call
       ELSE /\ pc' = [pc EXCEPT ![t] = "idle"]
            /\ call' = [call EXCEPT ![t] = NoCall]
            /\ outcome' = [outcome EXCEPT ![t] = "none"]
            /\ attempt' = [attempt EXCEPT ![t] = 0]
            /\ retry' = [retry EXCEPT ![t] = NoRetry]
    /\ UNCHANGED <<db, wlock, txn>>
    /\ UNCHANGED mem

\* The finally of get_connection, then _execute_with_retry: the connection
\* goes back to the queue; a "database is locked" error before the last
\* attempt leads, after the sleep, to the next attempt; anything else is the
\* call's result, the value returned ("none": no exception) or the exception
\* raised again, and the caller goes on.
\* (First, as Release, had the sleep and the next attempt been inside the
\* with block: the connection stays with the caller over the retry.)
Release_HeldOverRetry(t) ==
    /\ pc[t] = "release"
    /\ loc' = [loc EXCEPT ![t] = NoLoc]
    /\ IF Retried(outcome[t], attempt[t])
       THEN /\ retry' = [retry EXCEPT ![t].slept = Append(@, Backoff(attempt[t]))]
            /\ attempt' = [attempt EXCEPT ![t] = @ + 1]
            /\ outcome' = [outcome EXCEPT ![t] = "none"]
            /\ pc' = [pc EXCEPT ![t] = "acquire"]
            /\ UNCHANGED <<call, pool, conn>>
       ELSE /\ pool' = [pool EXCEPT ![conn[t][1]] = Append(@, conn[t][2])]
            /\ conn' = [conn EXCEPT ![t] = NoConn]
            /\ pc' = [pc EXCEPT ![t] = "idle"]
            /\ call' = [call EXCEPT ![t] = NoCall]
            /\ outcome' = [outcome EXCEPT ![t] = "none"]
            /\ attempt' = [attempt EXCEPT ![t] = 0]
            /\ retry' = [retry EXCEPT ![t] = NoRetry]
    /\ UNCHANGED <<db, wlock, txn>>
    /\ UNCHANGED mem

Release(t) ==
    /\ pc[t] = "release"
    /\ pool' = [pool EXCEPT ![conn[t][1]] = Append(@, conn[t][2])]
    /\ conn' = [conn EXCEPT ![t] = NoConn]
    /\ loc' = [loc EXCEPT ![t] = NoLoc]
    /\ IF Retried(outcome[t], attempt[t])
       THEN /\ retry' = [retry EXCEPT ![t].slept = Append(@, Backoff(attempt[t]))]
            /\ attempt' = [attempt EXCEPT ![t] = @ + 1]
            /\ outcome' = [outcome EXCEPT ![t] = "none"]
            /\ pc' = [pc EXCEPT ![t] = "acquire"]
            /\ UNCHANGED call
       ELSE /\ pc' = [pc EXCEPT ![t] = "idle"]
            /\ call' = [call EXCEPT ![t] = NoCall]
            /\ outcome' = [outcome EXCEPT ![t] = "none"]
            /\ attempt' = [attempt EXCEPT ![t] = 0]
            /\ retry' = [retry EXCEPT ![t] = NoRetry]
    /\ UNCHANGED <<db, wlock, txn>>
    /\ UNCHANGED mem

\* The call is over: the caller has its result and goes on.
Return(t) ==
    /\ pc[t] = "done"
    /\ pc' = [pc EXCEPT ![t] = "idle"]
    /\ call' = [call EXCEPT ![t] = NoCall]
    /\ outcome' = [outcome EXCEPT ![t] = "none"]
    /\ attempt' = [attempt EXCEPT ![t] = 0]
    /\ retry' = [retry EXCEPT ![t] = NoRetry]
    /\ UNCHANGED <<db, wlock, txn, pool, conn, loc>>
    /\ UNCHANGED mem

\* add_book: BEGIN and the duplicate SELECT, which takes the snapshot.
AddBookSelect(t) ==
    /\ pc[t] = "add_book:select"
    /\ LET e == add_book_check(db, call[t].args)
       IN  IF e # "none"
           THEN /\ StoreBecomes(rollback(conn[t]))
                /\ Leave(t, e)
           ELSE /\ txn' = [txn EXCEPT ![conn[t]] = [mode |-> "read", view |-> db]]
                /\ pc' = [pc EXCEPT ![t] = "add_book:insert"]
                /\ UNCHANGED <<db, wlock, outcome>>
    /\ UNCHANGED <<pool, call, conn, attempt, retry, loc>>
    /\ UNCHANGED mem

\* add_book: the INSERT, which takes the write lock; isbn is UNIQUE.
AddBookInsert(t) ==
    /\ pc[t] = "add_book:insert"
    /\ CanWrite(conn[t])
    /\ IF BookIdByIsbn(View(conn[t]), call[t].args.isbn) # 0
       THEN /\ StoreBecomes(rollback(conn[t]))
            /\ Leave(t, "IntegrityError")
       ELSE /\ txn' = [txn EXCEPT ![conn[t]] =
                        [mode |-> "write",
                         view |-> add_book_insert(View(conn[t]), call[t].args)]]
            /\ wlock' = conn[t]
            /\ pc' = [pc EXCEPT ![t] = "add_book:commit"]
            /\ UNCHANGED <<db, outcome>>
    /\ UNCHANGED <<pool, call, conn, attempt, retry, loc>>
    /\ UNCHANGED mem

\* add_book: conn.commit().
AddBookCommit(t) ==
    /\ pc[t] = "add_book:commit"
    /\ StoreBecomes(commit(txn, conn[t]))
    /\ Leave(t, "none")
    /\ UNCHANGED <<pool, call, conn, attempt, retry, loc>>
    /\ UNCHANGED mem

\* add_member: the duplicate SELECT, in autocommit mode.
AddMemberSelect(t) ==
    /\ pc[t] = "add_member:select"
    /\ LET e == add_member_check(db, call[t].args)
       IN  IF e # "none"
           THEN Leave(t, e)
           ELSE /\ pc' = [pc EXCEPT ![t] = "add_member:insert"]
                /\ UNCHANGED outcome
    /\ UNCHANGED <<db, wlock, txn, pool, call, conn, attempt, retry, loc>>
    /\ UNCHANGED mem

\* add_member: the INSERT, committed by itself; email is UNIQUE.
AddMemberInsert(t) ==
    /\ pc[t] = "add_member:insert"
    /\ CanWrite(conn[t])
    /\ IF MemberIdByEmail(db, call[t].args.email) # 0
       THEN /\ Leave(t, "IntegrityError")
            /\ UNCHANGED db
       ELSE /\ db' = add_member_insert(db, call[t].args)
            /\ Leave(t, "none")
    /\ UNCHANGED <<wlock, txn, pool, call, conn, attempt, retry, loc>>
    /\ UNCHANGED mem

\* As IssueBegin, had the transaction begun without excluding the other
\* writers.
IssueBegin_NoLock(t) ==
    /\ pc[t] = "issue_book:begin"
    /\ \/ Len(db.transactions) < MaxTransactions
       \/ issue_book_update(db, call[t].args.member_id, call[t].args.isbn).exc # "none"
    /\ txn' = [txn EXCEPT ![conn[t]] = [mode |-> "write", view |-> db]]
    /\ pc' = [pc EXCEPT ![t] = "issue_book:update"]
    /\ UNCHANGED <<db, wlock, pool, call, conn, attempt, retry, loc, outcome>>
    /\ UNCHANGED mem

\* issue_book: BEGIN IMMEDIATE takes the write lock.  (The model stops at
\* MaxTransactions loan rows: an issue that would add one more is not begun.)
IssueBegin(t) ==
    /\ pc[t] = "issue_book:begin"
    /\ CanWrite(conn[t])
    /\ \/ Len(db.transactions) < MaxTransactions
       \/ issue_book_update(db, call[t].args.member_id, call[t].args.isbn).exc # "none"
    /\ wlock' = conn[t]
    /\ txn' = [txn EXCEPT ![conn[t]] = [mode |-> "write", view |-> db]]
    /\ pc' = [pc EXCEPT ![t] = "issue_book:update"]
    /\ UNCHANGED <<db, pool, call, conn, attempt, retry, loc, outcome>>
    /\ UNCHANGED mem

\* issue_book: the look-ups and the guarded decrement; a ValidationError
\* rolls back.
IssueUpdate(t) ==
    /\ pc[t] = "issue_book:update"
    /\ LET r == issue_book_update(View(conn[t]), call[t].args.member_id,
                                  call[t].args.isbn)
       IN  IF r.exc # "none"
           THEN /\ StoreBecomes(rollback(conn[t]))
                /\ Leave(t, r.exc)
                /\ UNCHANGED loc
           ELSE /\ txn' = [txn EXCEPT ![conn[t]].view = r.view]
                /\ loc' = [loc EXCEPT ![t].book_id = r.book_id]
                /\ pc' = [pc EXCEPT ![t] = "issue_book:insert"]
                /\ UNCHANGED <<db, wlock, outcome>>
    /\ UNCHANGED <<pool, call, conn, attempt, retry>>
    /\ UNCHANGED mem

\* issue_book: the INSERT of the loan row and conn.commit().
IssueInsert(t) ==
    /\ pc[t] = "issue_book:insert"
    /\ txn[conn[t]].mode = "write"
    /\ LET v == issue_book_insert(View(conn[t]), loc[t].book_id,
                                  call[t].args.member_id)
       IN  StoreBecomes(commit([txn EXCEPT ![conn[t]].view = v], conn[t]))
    /\ Leave(t, "none")
    /\ UNCHANGED <<pool, call, conn, attempt, retry, loc>>
    /\ UNCHANGED mem

\* return_book: BEGIN and the two SELECTs, which take the snapshot.
ReturnSelect(t) ==
    /\ pc[t] = "return_book:select"
    /\ LET r == return_book_select(db, call[t].args.member_id, call[t].args.isbn)
       IN  IF r.exc # "none"
           THEN /\ StoreBecomes(rollback(conn[t]))
                /\ Leave(t, r.exc)
                /\ UNCHANGED loc
           ELSE /\ txn' = [txn EXCEPT ![conn[t]] = [mode |-> "read", view |-> db]]
                /\ loc' = [loc EXCEPT ![t] = [book_id |-> r.book_id,
                                              loan_id |-> r.loan_id]]
                /\ pc' = [pc EXCEPT ![t] = "return_book:update"]
                /\ UNCHANGED <<db, wlock, outcome>>
    /\ UNCHANGED <<pool, call, conn, attempt, retry>>
    /\ UNCHANGED mem

\* return_book: the two UPDATEs; the first takes the write lock.
ReturnUpdate(t) ==
    /\ pc[t] = "return_book:update"
    /\ CanWrite(conn[t])
    /\ txn' = [txn EXCEPT ![conn[t]] =
                [mode |-> "write",
                 view |-> return_book_update(View(conn[t]), loc[t].book_id,
                                             loc[t].loan_id)]]
    /\ wlock' = conn[t]
    /\ pc' = [pc EXCEPT ![t] = "return_book:commit"]
    /\ UNCHANGED <<db, pool, call, conn, attempt, retry, loc, outcome>>
    /\ UNCHANGED mem

\* return_book: conn.commit().
ReturnCommit(t) ==
    /\ pc[t] = "return_book:commit"
    /\ StoreBecomes(commit(txn, conn[t]))
    /\ Leave(t, "none")
    /\ UNCHANGED <<pool, call, conn, attempt, retry, loc>>
    /\ UNCHANGED mem

\* The statements that need the write lock.
WritePcs == {"add_book:insert", "add_member:insert", "issue_book:begin",
             "return_book:update", "authenticate_user:update"}

\* SQLITE_BUSY: the write lock stayed with another connection for the whole
\* busy_timeout, or the snapshot this transaction read is no longer current.
WriteBusy(t) ==
    /\ pc[t] \in WritePcs
    /\ ~CanWrite(conn[t])
    /\ StoreBecomes(rollback(conn[t]))
    /\ Leave(t, LOCKED)
    /\ UNCHANGED <<pool, call, conn, attempt, retry, loc>>
    /\ UNCHANGED mem

\* The statements after which a transaction has uncommitted writes.
FaultPcs == {"add_book:commit", "issue_book:insert", "return_book:commit"}

\* The storage fails under a transaction's last statement or its commit: the
\* except clause rolls back and re-raises.
StorageFault(t) ==
    /\ pc[t] \in FaultPcs
    /\ StoreBecomes(rollback(conn[t]))
    /\ Leave(t, IO_ERROR)
    /\ UNCHANGED <<pool, call, conn, attempt, retry, loc>>
    /\ UNCHANGED mem

\* The statements of an operation in flight.
Statement(t) ==
    \/ AddBookSelect(t) \/ AddBookInsert(t) \/ AddBookCommit(t)
    \/ AddMemberSelect(t) \/ AddMemberInsert(t)
    \/ IssueBegin(t) \/ IssueUpdate(t) \/ IssueInsert(t)
    \/ ReturnSelect(t) \/ ReturnUpdate(t) \/ ReturnCommit(t)

\* Concurrent callers, SQLITE_BUSY and storage faults.
Next ==
    \E t \in Threads :
        \/ CallAddBook(t, ConcurrentAddBookCalls)
        \/ CallAddMember(t, ConcurrentAddMemberCalls)
        \/ CallIssueBook(t, ConcurrentLoanCalls)
        \/ CallReturnBook(t, ConcurrentLoanCalls)
        \/ Acquire(t) \/ Release(t)
        \/ Statement(t) \/ WriteBusy(t) \/ StorageFault(t)

Spec == Init /\ [][Next]_vars

\* Scheduling: a thread that can go on with its operation (a statement, its
\* failure, the way out of get_connection) does so in the end; a thread
\* waiting in Queue.get() gets a connection in the end if connections keep
\* coming back, the queue waking its waiters in the order they came.
Proceed(t) == Release(t) \/ Statement(t) \/ WriteBusy(t) \/ StorageFault(t)

\* (Under fairness no call in flight may stop at the model's bound: an
\* issue_book call is made only while the loan rows and the issue_book calls
\* in flight are fewer than MaxTransactions.  Books are added with one copy.)
CallIssueBookWithin(t, cs) ==
    /\ Len(db.transactions) + InFlight("issue_book") < MaxTransactions
    /\ CallIssueBook(t, cs)

NextFair ==
    \E t \in Threads :
        \/ CallAddBook(t, {c \in ConcurrentAddBookCalls :
                                c.raw.quantity = PyInt(1)})
        \/ CallAddMember(t, ConcurrentAddMemberCalls)
        \/ CallIssueBookWithin(t, ConcurrentLoanCalls)
        \/ CallReturnBook(t, ConcurrentLoanCalls)
        \/ Acquire(t) \/ Proceed(t)

SpecFair ==
    /\ Init /\ [][NextFair]_vars
    /\ \A t \in Threads : WF_vars(Proceed(t)) /\ SF_vars(Acquire(t))

\* One caller, the thread that constructed handler h1, with any arguments and
\* a storage that does not fail.
NextSeq ==
    \/ CallAddBook("t1", AddBookCalls)
    \/ CallAddMember("t1", AddMemberCalls)
    \/ CallIssueBook("t1", LoanCalls)
    \/ CallReturnBook("t1", LoanCalls)
    \/ Acquire("t1") \/ Release("t1") \/ Return("t1")
    \/ Statement("t1")

SpecSeq == Init /\ [][NextSeq]_vars

(***************************************************************************)
(* Accounts: add_user and authenticate_user.                               *)
(***************************************************************************)
\* The largest login_attempts the accounts of the model reach.
MaxLoginAttempts == 6

\* "if user['login_attempts'] >= 5".
LOCKOUT_THRESHOLD == 5

USER_B == <<"2">>
USER_UNKNOWN == <<"9">>
ADMIN_PADDED == <<" ", "1">>
PASSWORD_B == <<"p", "w">>
ROLE_USER == <<"u", "s", "e", "r">>

UsernameInputs ==
    {PyStr(ADMIN), PyStr(ADMIN_PADDED), PyStr(USER_B), PyStr(USER_UNKNOWN),
     PyStr(BLANK)}
PasswordInputs == {ADMIN, PASSWORD_B, <<>>}

\* The index of the users row with this username, 0 if there is none.
UserIndex(v, username) ==
    IF \E i \in 1..Len(v.users) : v.users[i].username = username
    THEN CHOOSE i \in 1..Len(v.users) : v.users[i].username = username
    ELSE 0

\* authenticate_user's SELECT id, username, password_hash, role, COUNT(*) as
\* login_attempts FROM users WHERE username = ? GROUP BY id: the column named
\* login_attempts is the number of rows of the group, not the stored counter.
authenticate_select(v, username) ==
    LET i == UserIndex(v, username)
    IN  IF i = 0 THEN PyNone
        ELSE [type |-> "Row", id |-> v.users[i].id,
              username |-> v.users[i].username,
              password_hash |-> v.users[i].password_hash,
              role |-> v.users[i].role,
              login_attempts |->
                  Cardinality({j \in 1..Len(v.users) :
                                  /\ v.users[j].username = username
                                  /\ v.users[j].id = v.users[i].id})]

\* As authenticate_update, had the UPDATEs no WHERE clause.
authenticate_update_AllRows(v, username, verified) ==
    [v EXCEPT !.users = [i \in 1..Len(v.users) |->
        [v.users[i] EXCEPT !.login_attempts = IF verified THEN 0 ELSE @ + 1]]]

\* authenticate_user's UPDATE users SET login_attempts = 0, or
\* login_attempts + 1, WHERE username = ?.
authenticate_update(v, username, verified) ==
    [v EXCEPT !.users = [i \in 1..Len(v.users) |->
        IF v.users[i].username = username
        THEN [v.users[i] EXCEPT !.login_attempts = IF verified THEN 0 ELSE @ + 1]
        ELSE v.users[i]]]

\* The dict authenticate_user returns for the row it fetched.
UserDict(user) ==
    [type |-> "dict", id |-> user.id, username |-> user.username,
     role |-> user.role]

\* The checks of authenticate_user before it takes a connection.
validate_credentials(username, password) ==
    LET u == validate_string(username)
    IN  IF u.exc # "none" THEN u
        ELSE IF password = <<>> THEN Raise("ValidationError")
        ELSE Ok([username |-> u.value.s, password |-> password])

AuthCalls ==
    {[raw |-> [username |-> u, password |-> p],
      r |-> validate_credentials(u, p)] :
        u \in UsernameInputs, p \in PasswordInputs}

\* (The model stops at MaxLoginAttempts: a call that would count one more
\* failure is not made.)
CallAuthenticate(t, cs) ==
    \E h \in Handlers : \E c \in OnHandler(t, h, cs) :
        /\ IF c.r.exc # "none" THEN TRUE
           ELSE LET i == UserIndex(db, c.r.value.username)
                IN  IF i = 0 THEN TRUE
                    ELSE \/ db.users[i].login_attempts < MaxLoginAttempts
                         \/ verify_password(c.r.value.password,
                                            db.users[i].password_hash)
        /\ Start(t, h, "authenticate_user", c.raw, c.r)

\* authenticate_user: the SELECT, the test for an unknown username and the
\* lockout test.
AuthSelect(t) ==
    /\ pc[t] = "authenticate_user:select"
    /\ LET user == authenticate_select(View(conn[t]), call[t].args.username)
       IN  IF user = PyNone
           THEN /\ Leave(t, "none")
                /\ loc' = [loc EXCEPT ![t] = [user |-> PyNone, result |-> PyNone]]
           ELSE IF user.login_attempts >= LOCKOUT_THRESHOLD
           THEN /\ Leave(t, "ValidationError")
                /\ loc' = [loc EXCEPT ![t] = [user |-> user, result |-> PyNone]]
           ELSE /\ pc' = [pc EXCEPT ![t] = "authenticate_user:update"]
                /\ loc' = [loc EXCEPT ![t] = [user |-> user, result |-> PyNone]]
                /\ UNCHANGED outcome
    /\ UNCHANGED <<db, wlock, txn, pool, call, conn, attempt, retry>>
    /\ UNCHANGED mem

\* authenticate_user: verify_password and the UPDATE of the counter, which
\* commits by itself; the call returns the dict or None.
AuthUpdate(t) ==
    /\ pc[t] = "authenticate_user:update"
    /\ CanWrite(conn[t])
    /\ LET verified == verify_password(call[t].args.password,
                                       loc[t].user.password_hash)
       IN  /\ db' = authenticate_update(db, call[t].args.username, verified)
           /\ loc' = [loc EXCEPT ![t].result =
                         IF verified THEN UserDict(loc[t].user) ELSE PyNone]
    /\ Leave(t, "none")
    /\ UNCHANGED <<wlock, txn, pool, call, conn, attempt, retry>>
    /\ UNCHANGED mem

\* add_user, the whole call: a connection of the pool, hash_password, the
\* INSERT and its commit; every exception (the ValueError of an empty
\* password, the IntegrityError of a stored username, the ProgrammingError
\* on another thread's connection) is swallowed and the call returns False.
AddUser(t, h, username, password, role, salt) ==
    /\ pc[t] = "idle"
    /\ pool[h] # <<>>
    /\ wlock = NoConn
    /\ IF Owner(h) = t /\ password # <<>> /\ UserIndex(db, username) = 0
       THEN db' = [db EXCEPT !.users =
                      Append(@, UserRow(db.users, username,
                                        hash_password(password, salt), role))]
       ELSE UNCHANGED db
    /\ UNCHANGED <<wlock, txn, pool, pc, call, conn, attempt, retry, loc, outcome>>
    /\ UNCHANGED mem

CallAddUser(t) ==
    \E h \in Handlers, u \in {ADMIN, USER_B}, p \in {PASSWORD_B, <<>>},
       salt \in SALTS :
        AddUser(t, h, u, p, ROLE_USER, salt)

\* One caller registering accounts and logging in, with any credentials.
NextAuth ==
    \/ CallAddUser("t1")
    \/ CallAuthenticate("t1", AuthCalls)
    \/ Acquire("t1") \/ Release("t1") \/ Return("t1")
    \/ AuthSelect("t1") \/ AuthUpdate("t1")

SpecAuth == Init /\ [][NextAuth]_vars

(***************************************************************************)
(* Construction: DatabaseHandler.__init__ on a database file in any state. *)
(***************************************************************************)
\* A users row of a file written before login_attempts existed.
LegacyRow(id, username) ==
    [id |-> id, username |-> username,
     password_hash |-> hash_password(PASSWORD_B, "s2"), role |-> ROLE_USER]

\* The database files a handler may be constructed on: a new file; the file
\* the test's setUp prepares, with the users table alone; a file whose users
\* table has no login_attempts column, with or without an account "1"; and
\* files handlers have been constructed on and used.
NoTables == [EmptyDb EXCEPT !.users = <<>>, !.schema = {}]
StartingStorages ==
    {NoTables,
     [NoTables EXCEPT !.schema = {"users", "users.login_attempts"}],
     [NoTables EXCEPT !.schema = {"users"},
                      !.users = <<LegacyRow(1, USER_B)>>],
     [NoTables EXCEPT !.schema = {"users"},
                      !.users = <<LegacyRow(1, USER_B), LegacyRow(2, ADMIN)>>],
     EmptyDb,
     [EmptyDb EXCEPT !.users =
         <<[EmptyDb.users[1] EXCEPT !.login_attempts = 3],
           UserRow(EmptyDb.users, USER_B, hash_password(PASSWORD_B, "s2"),
                   ROLE_USER)>>]}

InitConstruct ==
    /\ db \in StartingStorages
    /\ wlock = NoConn
    /\ txn = [c \in Conns |-> NoTxn]
    /\ pool = [h \in Handlers |-> <<>>]
    /\ pc = [t \in Threads |-> "idle"]
    /\ call = [t \in Threads |-> NoCall]
    /\ conn = [t \in Threads |-> NoConn]
    /\ attempt = [t \in Threads |-> 0]
    /\ retry = [t \in Threads |-> NoRetry]
    /\ loc = [t \in Threads |-> NoLoc]
    /\ outcome = [t \in Threads |-> "none"]
    /\ now = 0
    /\ start_time = 0
    /\ calls = <<>>
    /\ notified = <<>>

\* The handler thread t constructs.
HandlerOf(t) == CHOOSE h \in Handlers : Owner(h) = t

\* As InitFails, had __init__ logged the exception and returned.
InitFails_Logged(t, e) ==
    /\ pc' = [pc EXCEPT ![t] = "done"]
    /\ outcome' = [outcome EXCEPT ![t] = "none"]

\* __init__'s except clause: whatever was raised, the construction raises
\* RuntimeError("Database initialization failed").
InitFails(t, e) ==
    /\ pc' = [pc EXCEPT ![t] = "done"]
    /\ outcome' = [outcome EXCEPT ![t] = "RuntimeError"]

\* with self.pool.get_connection(): enter and leave.
GetConnection(t) ==
    /\ pool[HandlerOf(t)] # <<>>
    /\ conn' = [conn EXCEPT ![t] = <<HandlerOf(t), Head(pool[HandlerOf(t)])>>]
    /\ pool' = [pool EXCEPT ![HandlerOf(t)] = Tail(@)]
PutConnection(t) ==
    /\ pool' = [pool EXCEPT ![conn[t][1]] = Append(@, conn[t][2])]
    /\ conn' = [conn EXCEPT ![t] = NoConn]

\* DatabaseHandler(): DatabasePool() opens the connections of the pool.
Construct(t) ==
    /\ pc[t] = "idle"
    /\ pool' = [pool EXCEPT ![HandlerOf(t)] = [i \in 1..PoolSize |-> i]]
    /\ call' = [call EXCEPT ![t] = [op |-> "__init__", h |-> HandlerOf(t)]]
    /\ pc' = [pc EXCEPT ![t] = "create_tables:select"]
    /\ outcome' = [outcome EXCEPT ![t] = "none"]
    /\ UNCHANGED <<db, wlock, txn, conn, attempt, retry, loc>>
    /\ UNCHANGED mem

\* DatabaseHandler() when sqlite3.connect raises: the file cannot be opened.
ConstructOpenFails(t) ==
    /\ pc[t] = "idle"
    /\ call' = [call EXCEPT ![t] = [op |-> "__init__", h |-> HandlerOf(t)]]
    /\ InitFails(t, "OperationalError")
    /\ UNCHANGED <<db, wlock, txn, pool, conn, attempt, retry, loc>>
    /\ UNCHANGED mem

\* create_tables: SELECT login_attempts FROM users LIMIT 1; an
\* OperationalError (no such table, no such column) leads to the ALTER TABLE.
CreateTablesSelect(t) ==
    /\ pc[t] = "create_tables:select"
    /\ GetConnection(t)
    /\ pc' = [pc EXCEPT ![t] = IF "users.login_attempts" \in db.schema
                               THEN "create_tables:create"
                               ELSE "create_tables:alter"]
    /\ UNCHANGED <<db, wlock, txn, call, attempt, retry, loc, outcome>>
    /\ UNCHANGED mem

\* create_tables: ALTER TABLE users ADD COLUMN login_attempts INTEGER DEFAULT
\* 0, which raises OperationalError when there is no users table or the
\* column exists by now.
CreateTablesAlter(t) ==
    /\ pc[t] = "create_tables:alter"
    /\ IF "users" \in db.schema /\ "users.login_attempts" \notin db.schema
       THEN /\ db' = [db EXCEPT
                        !.schema = @ \cup {"users.login_attempts"},
                        !.users = [i \in 1..Len(@) |->
                            [f \in DOMAIN @[i] \cup {"login_attempts"} |->
                                IF f = "login_attempts" THEN 0 ELSE @[i][f]]]]
            /\ pc' = [pc EXCEPT ![t] = "create_tables:create"]
            /\ UNCHANGED <<pool, conn, outcome>>
       ELSE /\ PutConnection(t)
            /\ InitFails(t, "OperationalError")
            /\ UNCHANGED db
    /\ UNCHANGED <<wlock, txn, call, attempt, retry, loc>>
    /\ UNCHANGED mem

\* create_tables: the five CREATE TABLE IF NOT EXISTS; a users table created
\* here has the login_attempts column.
CreateTablesCreate(t) ==
    /\ pc[t] = "create_tables:create"
    /\ db' = [db EXCEPT !.schema =
                 IF "users" \in @ THEN @ \cup Tables ELSE @ \cup FullSchema]
    /\ PutConnection(t)
    /\ pc' = [pc EXCEPT ![t] = "create_default_user:select"]
    /\ UNCHANGED <<wlock, txn, call, attempt, retry, loc, outcome>>
    /\ UNCHANGED mem

\* As create_default_user_check, had it looked for any row of users.
create_default_user_check_AnyRow(v) == v.users # <<>>

\* create_default_user: SELECT * FROM users WHERE username = "1" finds a row.
create_default_user_check(v) == UserIndex(v, ADMIN) # 0

\* create_default_user: the SELECT; with the account stored the construction
\* is complete.
SeedSelect(t) ==
    /\ pc[t] = "create_default_user:select"
    /\ pool[HandlerOf(t)] # <<>>
    /\ IF create_default_user_check(db)
       THEN /\ pc' = [pc EXCEPT ![t] = "done"]
            /\ UNCHANGED <<pool, conn>>
       ELSE /\ GetConnection(t)
            /\ pc' = [pc EXCEPT ![t] = "create_default_user:insert"]
    /\ UNCHANGED <<db, wlock, txn, call, attempt, retry, loc, outcome>>
    /\ UNCHANGED mem

\* create_default_user: hash_password("1") and the INSERT; username is
\* UNIQUE, so an account stored since the SELECT raises IntegrityError.
SeedInsert(t) ==
    /\ pc[t] = "create_default_user:insert"
    /\ PutConnection(t)
    /\ IF UserIndex(db, ADMIN) # 0
       THEN /\ InitFails(t, "IntegrityError")
            /\ UNCHANGED db
       ELSE /\ \E salt \in SALTS :
                  db' = [db EXCEPT !.users =
                            Append(@, UserRow(@, ADMIN,
                                              hash_password(ADMIN, salt), ADMIN))]
            /\ pc' = [pc EXCEPT ![t] = "done"]
            /\ UNCHANGED outcome
    /\ UNCHANGED <<wlock, txn, call, attempt, retry, loc>>
    /\ UNCHANGED mem

\* Two threads, each constructing its handler on the same file, again and
\* again.
NextConstruct ==
    \E t \in Threads :
        \/ Construct(t) \/ ConstructOpenFails(t)
        \/ CreateTablesSelect(t) \/ CreateTablesAlter(t) \/ CreateTablesCreate(t)
        \/ SeedSelect(t) \/ SeedInsert(t)
        \/ Return(t)

SpecConstruct == InitConstruct /\ [][NextConstruct]_vars

(***************************************************************************)
(* utils.validate_isbn, the checksum function.                             *)
(***************************************************************************)
\* sum(weight * int(num) for i, num in enumerate(digits)), i from 0, with
\* the weight 10 - i of ISBN-10 or 1 if i % 2 == 0 else 3 of ISBN-13; int()
\* raises ValueError for "X", which makes validate_isbn return False.
RECURSIVE WeightedSum(_, _, _)
WeightedSum(digits, length, i) ==
    IF digits = <<>> THEN 0
    ELSE (IF length = 10 THEN 10 - i ELSE IF i % 2 = 0 THEN 1 ELSE 3)
            * DigitValue(Head(digits))
         + WeightedSum(Tail(digits), length, i + 1)

\* str(d) of a number 0..9.
DigitChar(d) == CHOOSE ch \in Digits : DigitValue(ch) = d

\* As utils_validate_isbn, had the ISBN-10 check value 10 not been written "X".
utils_validate_isbn_NoX(isbn) ==
    LET s == Remove(Remove(isbn, "-"), " ")
    IN  IF isbn = <<>> THEN FALSE
        ELSE IF ~IsDigitStr(Remove(s, "X")) THEN FALSE
        ELSE IF Len(s) = 10
        THEN IF ~IsDigitStr(SubSeq(s, 1, 9)) THEN FALSE
             ELSE LET check == 11 - (WeightedSum(SubSeq(s, 1, 9), 10, 0) % 11)
                  IN  s[10] = DigitChar((check % 11) % 10)
        ELSE IF Len(s) = 13
        THEN IF ~IsDigitStr(SubSeq(s, 1, 12)) THEN FALSE
             ELSE LET check == (10 - (WeightedSum(SubSeq(s, 1, 12), 13, 0) % 10)) % 10
                  IN  s[13] = DigitChar(check)
        ELSE FALSE

\* utils.validate_isbn for a str: hyphens and spaces removed, then the
\* ISBN-10 or the ISBN-13 check character compared with the last character.
utils_validate_isbn(isbn) ==
    LET s == Remove(Remove(isbn, "-"), " ")
    IN  IF isbn = <<>> THEN FALSE
        ELSE IF ~IsDigitStr(Remove(s, "X")) THEN FALSE
        ELSE IF Len(s) = 10
        THEN IF ~IsDigitStr(SubSeq(s, 1, 9)) THEN FALSE
             ELSE LET check == 11 - (WeightedSum(SubSeq(s, 1, 9), 10, 0) % 11)
                  IN  s[10] = IF check = 10 THEN "X" ELSE DigitChar(check % 11)
        ELSE IF Len(s) = 13
        THEN IF ~IsDigitStr(SubSeq(s, 1, 12)) THEN FALSE
             ELSE LET check == (10 - (WeightedSum(SubSeq(s, 1, 12), 13, 0) % 10)) % 10
                  IN  s[13] = DigitChar(check)
        ELSE FALSE

ISBN_NINE_X == <<"1", "2", "3", "4", "5", "6", "7", "8", "9">>
ISBN_13 == <<"9", "7", "8", "0", "3", "0", "6", "4", "0", "6", "1", "5", "7">>

\* The strings validate_isbn is applied to: two nine-digit stems with every
\* last character, ISBN_13 with every digit at every position, and strings
\* of other lengths, with "X" inside, with hyphens, with a letter.
IsbnSamples ==
    {Append(stem, ch) : stem \in {SubSeq(ISBN_A, 1, 9), ISBN_NINE_X},
                        ch \in Digits \cup {"X"}}
    \cup {[ISBN_13 EXCEPT ![i] = ch] : i \in 1..13, ch \in Digits \cup {"X"}}
    \cup {SubSeq(ISBN_13, 1, n) : n \in 0..12}
    \cup {ISBN_13 \o <<"0">>, ISBN_A \o <<"2">>, ISBN_A_HYPHENS, ISBN_X_FIRST,
          ISBN_WORD, <<"X">>, <<"-">>}

\* validate_isbn(isbn), the whole call.
ValidateIsbn(t, isbn) ==
    /\ pc[t] = "idle"
    /\ pc' = [pc EXCEPT ![t] = "done"]
    /\ call' = [call EXCEPT ![t] = [op |-> "validate_isbn", raw |-> isbn]]
    /\ loc' = [loc EXCEPT ![t] = [result |-> utils_validate_isbn(isbn)]]
    /\ UNCHANGED <<db, wlock, txn, pool, conn, attempt, retry, outcome>>
    /\ UNCHANGED mem

NextIsbn ==
    \/ \E isbn \in IsbnSamples : ValidateIsbn("t1", isbn)
    \/ Return("t1")

SpecIsbn == Init /\ [][NextIsbn]_vars

(***************************************************************************)
(* One caller at the desk: books, members, loans and accounts together.    *)
(***************************************************************************)
\* ISBN_A with its last digit changed: ten digits, not a valid ISBN-10.
ISBN_WRONG_CHECK == <<"0", "3", "0", "6", "4", "0", "6", "1", "5", "3">>

\* The calls at the desk: two books, one copy each, one of them under
\* ISBN_WRONG_CHECK; one member; that member's loans of both books; the
\* default account with its password and with another one.
DeskBookCalls ==
    {[raw |-> x, r |-> validate_book_data(x)] :
        x \in {BookData(PyStr(TITLE), PyStr(AUTHOR), PyStr(i), PyInt(1),
                        PyStr(CATEGORY)) : i \in {ISBN_A, ISBN_WRONG_CHECK}}}
DeskLoanCalls ==
    {[raw |-> x, r |-> validate_loan_args(x.member_id, x.isbn)] :
        x \in {LoanArgs(PyInt(1), PyStr(i)) : i \in {ISBN_A, ISBN_WRONG_CHECK}}}
DeskAuthCalls ==
    {c \in AuthCalls : c.raw.username = PyStr(ADMIN) /\ c.raw.password # <<>>}

NextDesk ==
    \/ CallAddBook("t1", DeskBookCalls)
    \/ CallAddMember("t1", ConcurrentAddMemberCalls)
    \/ CallIssueBook("t1", DeskLoanCalls)
    \/ CallReturnBook("t1", DeskLoanCalls)
    \/ CallAuthenticate("t1", DeskAuthCalls)
    \/ CallAddUser("t1")
    \/ Acquire("t1") \/ Release("t1")
    \/ Statement("t1") \/ AuthSelect("t1") \/ AuthUpdate("t1")

SpecDesk == Init /\ [][NextDesk]_vars

(***************************************************************************)
(* The clock, the session and the rate limit of the notifications.         *)
(***************************************************************************)
SESSION_TIMEOUT == 3600
MAX_CALLS == 100
TIME_FRAME == 3600

\* time.time() in whole seconds, up to MaxClock; it advances between calls by
\* one of TickSteps, which add up to one second less than an hour, to the
\* hour and to one second more.
MaxClock == 7203
TickSteps == {1799, 1800, 1801}

Tick(d) ==
    /\ now + d <= MaxClock
    /\ now' = now + d
    /\ UNCHANGED <<db, wlock, txn, pool, pc, call, conn, attempt, retry, loc,
                   outcome, start_time, calls, notified>>

\* Session.is_valid() at the time now.
is_valid_Inclusive == (now - start_time) <= SESSION_TIMEOUT
is_valid == (now - start_time) < SESSION_TIMEOUT

\* is_valid(), the whole call.  (The session was created at time 0.)
IsValid(t) ==
    /\ pc[t] = "idle"
    /\ pc' = [pc EXCEPT ![t] = "done"]
    /\ call' = [call EXCEPT ![t] = [op |-> "is_valid"]]
    /\ loc' = [loc EXCEPT ![t] = [result |-> is_valid, at |-> now]]
    /\ UNCHANGED <<db, wlock, txn, pool, conn, attempt, retry, outcome>>
    /\ UNCHANGED mem

\* refresh(), the whole call.
Refresh(t) ==
    /\ pc[t] = "idle"
    /\ start_time' = now
    /\ UNCHANGED <<db, wlock, txn, pool, pc, call, conn, attempt, retry, loc,
                   outcome, now, calls, notified>>

NextSession ==
    \/ \E d \in TickSteps : Tick(d)
    \/ IsValid("t1")
    \/ Refresh("t1")
    \/ Return("t1")

SpecSession == Init /\ [][NextSession]_vars

\* The wrapper of rate_limit(max_calls, time_frame) on the list cs at the time
\* at: it keeps the calls later than at - time_frame, then raises if max_calls
\* of them are left, else appends at and runs the function.
rate_limit_AdmitsAtLimit(cs, at, max_calls, time_frame) ==
    LET recent == SelectSeq(cs, LAMBDA c : c > at - time_frame)
    IN  IF Len(recent) > max_calls
        THEN [calls |-> recent, exc |-> "NotificationError"]
        ELSE [calls |-> Append(recent, at), exc |-> "none"]
rate_limit(cs, at, max_calls, time_frame) ==
    LET recent == SelectSeq(cs, LAMBDA c : c > at - time_frame)
    IN  IF Len(recent) >= max_calls
        THEN [calls |-> recent, exc |-> "NotificationError"]
        ELSE [calls |-> Append(recent, at), exc |-> "none"]

\* notify_overdue_books(overdue_loans), the whole call, on any
\* NotificationSystem: the list of its decorator is one for the class.
NotifyOverdueBooks(t) ==
    /\ pc[t] = "idle"
    /\ LET r == rate_limit(calls, now, MAX_CALLS, TIME_FRAME)
       IN  /\ calls' = r.calls
           /\ outcome' = [outcome EXCEPT ![t] = r.exc]
           /\ notified' = IF r.exc = "none" THEN Append(notified, now)
                          ELSE notified
    /\ pc' = [pc EXCEPT ![t] = "done"]
    /\ call' = [call EXCEPT ![t] = [op |-> "notify_overdue_books"]]
    /\ UNCHANGED <<db, wlock, txn, pool, conn, attempt, retry, loc, now,
                   start_time>>

\* The clock is read between bursts of calls: it advances when the list holds
\* no call, one, one less than MAX_CALLS, or MAX_CALLS.
BurstTick(d) ==
    /\ Len(calls) \in {0, 1, MAX_CALLS - 1, MAX_CALLS}
    /\ Tick(d)

NextNotify ==
    \/ \E d \in TickSteps : BurstTick(d)
    \/ NotifyOverdueBooks("t1")
    \/ Return("t1")

SpecNotify == Init /\ [][NextNotify]_vars

(***************************************************************************)
(* Properties.  A call has finished at "done", and already at "release"    *)
(* when the exception (or "none") of the attempt is the one that reaches   *)
(* the caller.                                                             *)
(***************************************************************************)
Finished(t) ==
    \/ pc[t] = "done"
    \/ pc[t] = "release" /\ ~Retried(outcome[t], attempt[t])

\* The step in which the call of t gets its result.
Finishes(t) == ~Finished(t) /\ Finished(t)'

\* An ISBN as it is stored: without hyphens and spaces.
Stripped(s) == Remove(Remove(s, "-"), " ")

\* The open loan rows of book b, of member m, and the members holding b.
OpenRows(b) ==
    {i \in 1..Len(db.transactions) :
        db.transactions[i].book_id = b /\ db.transactions[i].return_date = "NULL"}
OpenRowsOf(m, b) == {i \in OpenRows(b) : db.transactions[i].member_id = m}
Holders(b) == {db.transactions[i].member_id : i \in OpenRows(b)}

OpenRow(m, b) ==
    [book_id |-> b, member_id |-> m, return_date |-> "NULL", status |-> "issued"]

\* C1: in every committed state of the database, whatever calls succeeded
\* or failed and however they interleaved, every book row has
\* 0 <= available <= quantity.
C1_AvailableWithinQuantity ==
    \A i \in 1..Len(db.books) :
        0 <= db.books[i].available /\ db.books[i].available <= db.books[i].quantity

\* C1's case: a book all of whose copies are out after an issue, a return
\* and another issue, and a further issue_book that has just failed.
C1_Witness ==
    /\ \E i \in 1..Len(db.books) :
        /\ db.books[i].available = 0
        /\ OpenRows(i) # {}
        /\ \E j \in 1..Len(db.transactions) :
            db.transactions[j].book_id = i /\ db.transactions[j].return_date # "NULL"
    /\ \E t \in Threads :
        call[t].op = "issue_book" /\ Finished(t) /\ outcome[t] = "ValidationError"

\* The issue_book or return_book call of t, made by the thread that built
\* the handler with an existing member's id m and a stored book's ISBN,
\* finishes in this step; b is the book.
LoanCallFinishes(t, op, m, b) ==
    /\ Finishes(t)
    /\ call'[t].op = op /\ Owner(call'[t].h) = t
    /\ call'[t].raw.member_id = PyInt(m)
    /\ call'[t].raw.isbn.type = "str"
    /\ b = BookIdByIsbn(db, Stripped(call'[t].raw.isbn.s))

C2_Issue(t, m, b) ==
    LoanCallFinishes(t, "issue_book", m, b) =>
        IF Cardinality(OpenRows(b)) < db.books[b].quantity /\ m \notin Holders(b)
        THEN /\ outcome'[t] = "none"
             /\ db'.books[b].available = db.books[b].available - 1
             /\ db'.transactions = Append(db.transactions, OpenRow(m, b))
        ELSE Cardinality(OpenRows(b)) = db.books[b].quantity =>
             /\ outcome'[t] = "ValidationError"
             /\ db'.books[b].available = 0
             /\ db'.transactions = db.transactions

C2_Return(t, m, b) ==
    LoanCallFinishes(t, "return_book", m, b) /\ m \in Holders(b) =>
        /\ outcome'[t] = "none"
        /\ db'.books[b].available = db.books[b].available + 1

C2_Copies ==
    \A b \in 1..Len(db.books) :
        /\ Cardinality(OpenRows(b)) = db.books[b].quantity => db.books[b].available = 0
        /\ OpenRows(b) = {} => db.books[b].available = db.books[b].quantity

\* C2: for a book of quantity Q and distinct existing members, an issue_book
\* while fewer than Q copies are out succeeds, takes one copy and adds the
\* open row, so Q of them leave available = 0; an issue_book when Q are out
\* raises ValidationError and leaves available at 0 and the transactions
\* as they were; a return_book of a holder succeeds and gives one copy back,
\* so that when all are returned available is Q again.
C2_IssueThenReturn ==
    /\ []C2_Copies
    /\ [][\A t \in Threads : \A m \in 1..Len(db.members) : \A b \in 1..Len(db.books) :
            C2_Issue(t, m, b) /\ C2_Return(t, m, b)]_vars

\* C2's case: Q = MaxQuantity copies are out to Q distinct members and the
\* (Q+1)-th issue_book has raised ValidationError.
C2_Witness ==
    \E t \in Threads : \E b \in 1..Len(db.books) :
        /\ call[t].op = "issue_book" /\ Finished(t) /\ outcome[t] = "ValidationError"
        /\ Owner(call[t].h) = t
        /\ call[t].raw.isbn.type = "str"
        /\ b = BookIdByIsbn(db, Stripped(call[t].raw.isbn.s))
        /\ db.books[b].quantity = MaxQuantity
        /\ Cardinality(Holders(b)) = MaxQuantity
        /\ db.books[b].available = 0

C3_Return(t, m, b) ==
    LoanCallFinishes(t, "return_book", m, b) =>
        IF Cardinality(OpenRowsOf(m, b)) = 1
        THEN /\ outcome'[t] = "none"
             /\ db'.books[b].available = db.books[b].available + 1
             /\ \A i \in OpenRowsOf(m, b) : db'.transactions[i].return_date # "NULL"
             /\ Len(db'.transactions) = Len(db.transactions)
        ELSE OpenRowsOf(m, b) = {} =>
             /\ outcome'[t] = "ValidationError"
             /\ db'.books = db.books
             /\ db'.transactions = db.transactions

\* C3: a return_book of a member holding exactly one open loan of the book
\* succeeds, closes that loan and raises available by exactly 1; a
\* return_book of a member holding no open loan of it, as the second of two
\* returns, raises ValidationError and changes no book row and no
\* transaction row.
C3_NoDoubleReturn ==
    [][\A t \in Threads : \A m \in 1..Len(db.members) : \A b \in 1..Len(db.books) :
            C3_Return(t, m, b)]_vars

\* C3's case: the member's only loan of the book is returned and a second
\* return_book has raised ValidationError.
C3_Witness ==
    \E t \in Threads : \E b \in 1..Len(db.books) : \E m \in 1..Len(db.members) :
        /\ call[t].op = "return_book" /\ Finished(t) /\ outcome[t] = "ValidationError"
        /\ call[t].raw.member_id = PyInt(m)
        /\ call[t].raw.isbn.type = "str"
        /\ b = BookIdByIsbn(db, Stripped(call[t].raw.isbn.s))
        /\ OpenRowsOf(m, b) = {}
        /\ \E i \in 1..Len(db.transactions) :
            /\ db.transactions[i].book_id = b /\ db.transactions[i].member_id = m
            /\ db.transactions[i].return_date # "NULL"

\* Thread t has an issue_book call for book b in flight.
IssueInFlight(t, b) ==
    /\ call[t].op = "issue_book" /\ pc[t] # "idle" /\ ~Finished(t)
    /\ b = BookIdByIsbn(db, Stripped(call[t].raw.isbn.s))

\* Two issue_book calls for b are in flight and one copy is available: the
\* tables change only by one of the two committing the last copy's loan.
C4_OneCommits(t, u, b) ==
    (/\ t # u /\ IssueInFlight(t, b) /\ IssueInFlight(u, b)
     /\ db.books[b].available = 1 /\ db' # db) =>
        \E w \in {t, u} :
            /\ Finishes(w) /\ outcome'[w] = "none"
            /\ \A x \in {t, u} \ {w} : ~Finishes(x)
            /\ db'.books[b].available = 0
            /\ db'.transactions =
                   Append(db.transactions, OpenRow(call[w].raw.member_id.n, b))

\* With no copy available an issue_book call fails, and an attempt that
\* raises leaves the tables as they are.
C4_OtherFails(u, b) ==
    /\ (IssueInFlight(u, b) /\ db.books[b].available = 0 /\ Finishes(u)) =>
            outcome'[u] # "none" /\ db' = db
    /\ (/\ IssueInFlight(u, b) /\ pc[u] # "release"
        /\ pc'[u] = "release" /\ outcome'[u] # "none") =>
            db' = db

\* C4: of two concurrent issue_book calls for a book with one available
\* copy at most one commits, leaving available = 0 and exactly one new open
\* row; available is never negative; the call that finds no copy, or that
\* raises for another reason, fails and leaves no trace.
C4_LastCopyIssuedOnce ==
    /\ [](\A b \in 1..Len(db.books) : db.books[b].available >= 0)
    /\ [][\A t \in Threads : \A u \in Threads : \A b \in 1..Len(db.books) :
            C4_OneCommits(t, u, b) /\ C4_OtherFails(u, b)]_vars

\* C4's case: the book had one copy; two overlapping issue_book calls, each
\* on a connection of its own thread's handler, have finished: one
\* committed the only loan row, the other raised ValidationError.
C4_Witness ==
    \E t \in Threads : \E u \in Threads \ {t} : \E b \in 1..Len(db.books) :
        /\ call[t].op = "issue_book" /\ call[u].op = "issue_book"
        /\ b = BookIdByIsbn(db, Stripped(call[t].raw.isbn.s))
        /\ b = BookIdByIsbn(db, Stripped(call[u].raw.isbn.s))
        /\ pc[t] = "release" /\ outcome[t] = "none"
        /\ pc[u] = "release" /\ outcome[u] = "ValidationError"
        /\ conn[t][1] = call[t].h /\ conn[u][1] = call[u].h /\ conn[t] # conn[u]
        /\ Owner(call[t].h) = t /\ Owner(call[u].h) = u
        /\ db.books[b].quantity = 1 /\ db.books[b].available = 0
        /\ db.transactions = <<OpenRow(call[t].raw.member_id.n, b)>>

\* C5: for every book and member there is at most one transaction row with
\* return_date IS NULL; an issue_book for a member who holds an open loan
\* of the book adds no second open row.
C5_OneOpenLoanPerPair ==
    \A b \in 1..Len(db.books) : \A m \in 1..Len(db.members) :
        Cardinality(OpenRowsOf(m, b)) <= 1

\* The step of thread u that ends an attempt of its call with an exception.
AttemptRaises(u) ==
    \/ pc[u] = "idle" /\ pc'[u] = "done"
    \/ pc[u] # "release" /\ pc'[u] = "release" /\ outcome'[u] # "none"

\* A step of an issue_book call changes the tables only by committing the
\* decrement together with the loan row, as the call returns; an attempt
\* that raises changes nothing.
C6_Step(u) ==
    (call'[u].op = "issue_book" /\ pc'[u] # pc[u]) =>
        /\ AttemptRaises(u) => db' = db
        /\ db' # db =>
            /\ Finishes(u) /\ outcome'[u] = "none"
            /\ \E b \in 1..Len(db.books) :
                /\ db'.books = [db.books EXCEPT ![b].available = @ - 1]
                /\ db'.transactions =
                       Append(db.transactions, OpenRow(call[u].raw.member_id.n, b))
            /\ db'.members = db.members

\* No committed state has a copy taken without its loan row.
C6_NoPartialIssue ==
    \A b \in 1..Len(db.books) :
        db.books[b].quantity - db.books[b].available = Cardinality(OpenRows(b))

\* C6: a failing issue_book is all-or-nothing: when it raises (book
\* missing, no copy available, member missing, a storage error after the
\* decrement, a busy database) the books and transactions tables are as
\* they were, and no committed state has the decrement without the loan row.
C6_IssueAllOrNothing ==
    /\ []C6_NoPartialIssue
    /\ [][\A u \in Threads : C6_Step(u)]_vars

\* C6's case: the storage failed after issue_book's decrement for an
\* existing member and a book with all copies available; the call raised
\* and nothing of it is in the tables.
C6_Witness ==
    \E u \in Threads : \E b \in 1..Len(db.books) :
        /\ call[u].op = "issue_book" /\ Finished(u) /\ outcome[u] = IO_ERROR
        /\ b = BookIdByIsbn(db, Stripped(call[u].raw.isbn.s))
        /\ call[u].raw.member_id.n \in 1..Len(db.members)
        /\ db.books[b].available = db.books[b].quantity
        /\ db.transactions = <<>>

\* The arguments the validation has to reject, case by case.
EmptyInputs == {PyStr(<<>>), PyStr(BLANK)}
InvalidEmailInputs == {PyStr(EMAIL_NO_AT), PyStr(EMAIL_NO_DOT), PyStr(<<>>)}
InvalidPhoneInputs == {PyStr(PHONE_LETTERS), PyStr(PHONE_SHORT), PyStr(<<>>)}
NegativeOrNonNumeric == {PyInt(0 - 1), PyStr(<<"-", "1">>), PyStr(<<"x">>), PyNone}
MemberIdBelowOne == {PyInt(0), PyInt(0 - 1), PyStr(<<"0">>)}
MalformedIsbns ==
    {PyStr(ISBN_WORD), PyStr(ISBN_SHORT), PyStr(ISBN_X_FIRST), PyStr(ISBN_13_X),
     PyStr(<<>>)}

FailsValidation(c) ==
    CASE c.op = "add_book" ->
            \/ c.raw.isbn \in MalformedIsbns
            \/ c.raw.title \in EmptyInputs \/ c.raw.author \in EmptyInputs
            \/ c.raw.quantity \in NegativeOrNonNumeric
      [] c.op = "add_member" ->
            \/ c.raw.name \in EmptyInputs
            \/ c.raw.email \in InvalidEmailInputs
            \/ c.raw.phone \in InvalidPhoneInputs
      [] c.op \in {"issue_book", "return_book"} ->
            c.raw.isbn \in MalformedIsbns \/ c.raw.member_id \in MemberIdBelowOne
      [] OTHER -> FALSE

\* C7: a call of add_book, add_member, issue_book or return_book with a
\* malformed ISBN, an empty title, author or name, a negative or
\* non-numeric quantity, an invalid e-mail or phone, or a member id below 1
\* raises ValidationError at once, and no table changes while it does.
C7_ValidationFailsFast ==
    /\ [](\A t \in Threads : FailsValidation(call[t]) =>
            pc[t] = "done" /\ outcome[t] = "ValidationError" /\ conn[t] = NoConn)
    /\ [][\A t \in Threads :
            (FailsValidation(call'[t]) /\ pc'[t] # pc[t]) => db' = db]_vars

\* C7's case: with a book and a member stored, an issue_book with member
\* id 0 has raised ValidationError.
C7_Witness ==
    \E t \in Threads :
        /\ call[t].op = "issue_book" /\ call[t].raw.member_id = PyInt(0)
        /\ pc[t] = "done" /\ outcome[t] = "ValidationError"
        /\ db.books # <<>> /\ db.members # <<>>

\* An add_book call of the handler's own thread whose ISBN, stripped of
\* hyphens and spaces, was stored when the call was made raises
\* ValidationError, and no step of it changes a book row.
C8_Duplicate(t) ==
    (/\ call'[t].op = "add_book" /\ Owner(call'[t].h) = t
     /\ call'[t].stored /\ pc'[t] # pc[t]) =>
        /\ db'.books = db.books
        /\ BookIdByIsbn(db, Stripped(call'[t].raw.isbn.s)) # 0
        /\ Finishes(t) => outcome'[t] = "ValidationError"

C8_UniqueIsbn ==
    \A i \in 1..Len(db.books) : \A j \in 1..Len(db.books) :
        db.books[i].isbn = db.books[j].isbn => i = j

\* C8: add_book with an ISBN that, after stripping hyphens and spaces, is
\* already stored raises ValidationError and leaves the stored row as it
\* is; and whatever add_book calls run, also concurrently, no two book rows
\* share an ISBN.
C8_DuplicateIsbnRejected ==
    /\ []C8_UniqueIsbn
    /\ [][\A t \in Threads : C8_Duplicate(t)]_vars

\* C8's case: the ISBN is stored, an add_book with the same ISBN written
\* with hyphens has raised ValidationError, and the row has its quantity.
C8_Witness ==
    \E t \in Threads :
        /\ call[t].op = "add_book" /\ call[t].stored
        /\ call[t].raw.isbn = PyStr(ISBN_A_HYPHENS)
        /\ Finished(t) /\ outcome[t] = "ValidationError"
        /\ Len(db.books) = 1 /\ db.books[1].isbn = ISBN_A
        /\ db.books[1].quantity = 1
        /\ call[t].raw.quantity = PyInt(MaxQuantity)

C9_UniqueEmail ==
    \A i \in 1..Len(db.members) : \A j \in 1..Len(db.members) :
        db.members[i].email = db.members[j].email => i = j

\* C9: an add_member call of the handler's own thread that ends while its
\* e-mail belongs to a stored member ends with ValidationError and adds no
\* row, however the add_member calls interleave; no two member rows ever
\* share an e-mail.
C9_DuplicateEmailIsValidationError ==
    /\ []C9_UniqueEmail
    /\ [][\A t \in Threads :
            (/\ call'[t].op = "add_member" /\ Owner(call'[t].h) = t
             /\ Finishes(t)
             /\ MemberIdByEmail(db, call'[t].raw.email.s) # 0) =>
                outcome'[t] = "ValidationError" /\ db' = db]_vars

\* The threads other than t that hold a connection of handler h.
OtherHolders(t, h) == {u \in Threads \ {t} : conn[u] # NoConn /\ conn[u][1] = h}

C10_Bounded ==
    \A h \in Handlers :
        /\ Cardinality({t \in Threads : conn[t] # NoConn /\ conn[t][1] = h}) <= PoolSize
        /\ \A t \in Threads : \A u \in Threads \ {t} :
            conn[t] # NoConn => conn[t] # conn[u]
        /\ \A t \in Threads : \A i \in 1..Len(pool[h]) :
            conn[t] # <<h, pool[h][i]>>

\* C10: with PoolSize connections in a pool, at most PoolSize acquisitions
\* of it are outstanding, no connection is held by two acquirers or lies in
\* the queue while held, and a thread that asks for a connection while
\* PoolSize are checked out gets none until one is released.
C10_PoolBoundAndExclusive ==
    /\ []C10_Bounded
    /\ [][\A t \in Threads :
            (/\ pc[t] = "acquire"
             /\ Cardinality(OtherHolders(t, call[t].h)) = PoolSize) =>
                /\ pc'[t] = "acquire" /\ conn'[t] = NoConn
                /\ \/ \E u \in OtherHolders(t, call[t].h) : conn'[u] = NoConn
                   \/ pool'[call[t].h] = <<>>]_vars

\* C10's case: a thread waits for a connection of a pool all of whose
\* connections are checked out.
C10_Witness ==
    \E t \in Threads :
        /\ pc[t] = "acquire" /\ conn[t] = NoConn
        /\ Cardinality(OtherHolders(t, call[t].h)) = PoolSize
        /\ pool[call[t].h] = <<>>

\* The connections of handler h that lie in its queue, and those held.
Queued(h) == {pool[h][i] : i \in 1..Len(pool[h])}
Held(h) == {conn[t][2] : t \in {u \in Threads : conn[u] # NoConn /\ conn[u][1] = h}}

C11_Conserved ==
    \A h \in Handlers :
        /\ Len(pool[h]) + Cardinality({t \in Threads : conn[t] # NoConn /\ conn[t][1] = h})
               = PoolSize
        /\ Queued(h) \cup Held(h) = 1..PoolSize
        /\ (\A t \in Threads : conn[t] = NoConn) => Len(pool[h]) = PoolSize

\* C11: the idle connections in the queue and the connections held inside
\* a get_connection scope are together the PoolSize connections of the
\* pool; a scope that is left, by return or by an exception of the body or
\* of the PRAGMAs, has its connection back in the queue, and with no
\* operation in flight the queue holds all of them.
C11_PoolConservation ==
    /\ []C11_Conserved
    /\ [][\A t \in Threads :
            (conn[t] # NoConn /\ conn'[t] = NoConn) =>
                \E i \in 1..Len(pool'[conn[t][1]]) :
                    pool'[conn[t][1]][i] = conn[t][2]]_vars

\* C11's case: an attempt has left its scope with "database is locked",
\* its connection is back in the full queue and the next attempt waits.
C11_Witness ==
    \E t \in Threads :
        /\ pc[t] = "acquire" /\ attempt[t] > 0 /\ conn[t] = NoConn
        /\ Len(pool[call[t].h]) = PoolSize

\* The attempt of t on its own handler's connection ends in this step with
\* e ("none": the operation returned).
AttemptEnds(t, e) ==
    pc[t] \notin {"idle", "acquire", "release", "done"} /\ pc'[t] = "release"
        /\ outcome'[t] = e

\* t leaves get_connection in this step, after an attempt that ended with e.
Leaves(t, e) == pc[t] = "release" /\ pc'[t] # "release" /\ outcome[t] = e

\* C12: when the first two attempts of an operation raise "database is
\* locked" and the third returns, the call returns that result, the
\* operation was invoked exactly three times, and _execute_with_retry slept
\* 0.5 s before the second attempt and 1.0 s before the third.
C12_ThirdAttemptSucceeds ==
    /\ [](\A t \in Threads :
            (pc[t] = "release" /\ outcome[t] = "none" /\ attempt[t] = 2) =>
                retry[t] = [invoked |-> 3, slept |-> <<5, 10>>])
    /\ [][\A t \in Threads :
            /\ (AttemptEnds(t, LOCKED) /\ retry[t].invoked < 3) => ~Finished(t)'
            /\ (Leaves(t, LOCKED) /\ retry[t].invoked < 3) =>
                    /\ pc'[t] = "acquire"
                    /\ Len(retry'[t].slept) = retry[t].invoked
                    /\ retry'[t].invoked = retry[t].invoked
            /\ (pc[t] = "acquire" /\ pc'[t] # "acquire" /\ Owner(call[t].h) = t) =>
                    retry'[t].invoked = retry[t].invoked + 1
            /\ Leaves(t, "none") => pc'[t] = "idle"]_vars

\* C12's case: two attempts found the database locked and the third has
\* committed; the call is about to return.
C12_Witness ==
    \E t \in Threads :
        /\ pc[t] = "release" /\ outcome[t] = "none"
        /\ retry[t] = [invoked |-> 3, slept |-> <<5, 10>>]
        /\ call[t].op \in {"add_book", "issue_book", "return_book", "add_member"}

\* C13: when every attempt raises "database is locked" the operation is
\* invoked exactly 3 times, never a fourth time, and the busy error of the
\* third attempt is raised to the caller: the call does not return.
C13_RetriesExhausted ==
    /\ [](\A t \in Threads :
            /\ retry[t].invoked <= 3 /\ Len(retry[t].slept) <= 2
            /\ (pc[t] = "release" /\ outcome[t] = LOCKED /\ attempt[t] = 2) =>
                    /\ retry[t] = [invoked |-> 3, slept |-> <<5, 10>>]
                    /\ Finished(t))
    /\ [][\A t \in Threads :
            (Leaves(t, LOCKED) /\ retry[t].invoked = 3) => pc'[t] = "idle"]_vars

\* C13's case: the third attempt has found the database locked, after two
\* that did.
C13_Witness ==
    \E t \in Threads :
        /\ pc[t] = "release" /\ outcome[t] = LOCKED
        /\ retry[t].invoked = 3

\* The exceptions of an operation other than "database is locked".
OtherErrors == {"ValidationError", "IntegrityError", IO_ERROR}

\* C14: an attempt that raises a ValidationError, an IntegrityError or an
\* OperationalError other than "database is locked" is not retried: the
\* exception is raised to the caller at once, with no further invocation
\* and no sleep; raised by the first attempt, the operation was invoked
\* exactly once and nothing was slept.
C14_OnlyBusyRetried ==
    /\ [](\A t \in Threads :
            (pc[t] = "release" /\ outcome[t] \in OtherErrors) =>
                /\ Finished(t)
                /\ attempt[t] = 0 => retry[t] = [invoked |-> 1, slept |-> <<>>])
    /\ [][\A t \in Threads : \A e \in OtherErrors :
            Leaves(t, e) => pc'[t] = "idle"]_vars

\* C14's case: the first attempt has raised an OperationalError that is not
\* "database is locked".
C14_Witness ==
    \E t \in Threads :
        /\ pc[t] = "release" /\ outcome[t] = IO_ERROR
        /\ retry[t] = [invoked |-> 1, slept |-> <<>>]

\* Thread t is in an authenticate_user call on the handler it constructed.
Authenticating(t) ==
    call[t].op = "authenticate_user" /\ pc[t] \notin {"idle", "done"}
        /\ Owner(call[t].h) = t

\* The stored row of the account t's call names, 0 if the username is unknown.
Account(t) == UserIndex(db, call[t].args.username)

\* t's attempt ends in this step: it returns or raises.
AuthEnds(t) ==
    pc[t] \in {"authenticate_user:select", "authenticate_user:update"}
        /\ pc'[t] = "release"

\* C15: while the stored login_attempts of an account is 5 or more, as after
\* 5 consecutive failed calls, every authenticate_user call for it raises the
\* "account locked" ValidationError, whatever the password: it neither
\* returns a user record nor None.
C15_LockedAccountRejected ==
    [][\A t \in Threads :
        (/\ Authenticating(t) /\ pc[t] = "authenticate_user:select"
         /\ pc'[t] # pc[t]
         /\ Account(t) # 0
         /\ db.users[Account(t)].login_attempts >= LOCKOUT_THRESHOLD) =>
            /\ pc'[t] = "release"
            /\ outcome'[t] = "ValidationError"]_vars

\* The rows of users other than row i, and all other tables, are the same
\* after the step.
OnlyRowChanges(i) ==
    /\ Len(db'.users) = Len(db.users)
    /\ \A j \in 1..Len(db.users) : j # i => db'.users[j] = db.users[j]
    /\ [db' EXCEPT !.users = <<>>] = [db EXCEPT !.users = <<>>]

\* C16: authenticate_user returns None for an unknown username and changes
\* no row; for a known account with fewer than 5 stored failures it returns
\* {id, username, role} exactly when the password verifies against the
\* stored hash, and then the account's login_attempts is 0; otherwise it
\* returns None, raises nothing and the account's login_attempts is one
\* more; no other row changes.
C16_AuthenticationOutcome ==
    [][\A t \in Threads :
        (Authenticating(t) /\ pc'[t] # pc[t] /\ conn[t] # NoConn) =>
            LET i == Account(t)
                stored == db.users[i]
                verifies == stored.password_hash.digest =
                                <<stored.password_hash.salt, call[t].args.password>>
            IN  IF i = 0
                THEN AuthEnds(t) => /\ outcome'[t] = "none"
                                    /\ loc'[t].result = PyNone
                                    /\ db' = db
                ELSE stored.login_attempts < LOCKOUT_THRESHOLD =>
                      /\ pc[t] = "authenticate_user:select" =>
                            db' = db /\ pc'[t] = "authenticate_user:update"
                      /\ pc[t] = "authenticate_user:update" =>
                            /\ AuthEnds(t) /\ outcome'[t] = "none"
                            /\ OnlyRowChanges(i)
                            /\ db'.users[i] =
                                  [stored EXCEPT !.login_attempts =
                                      IF verifies THEN 0 ELSE @ + 1]
                            /\ loc'[t].result =
                                  IF verifies
                                  THEN [type |-> "dict", id |-> stored.id,
                                        username |-> stored.username,
                                        role |-> stored.role]
                                  ELSE PyNone
                      /\ pc[t] = "release" => db' = db]_vars

\* C16's case: a login has just succeeded on an account that had failures
\* counted, while a second account keeps its own count of failures.
C16_Witness ==
    \E t \in Threads :
        /\ Authenticating(t) /\ pc[t] = "release" /\ outcome[t] = "none"
        /\ loc[t].result # PyNone
        /\ Len(db.users) = 2
        /\ db.users[Account(t)].login_attempts = 0
        /\ \E j \in 1..2 : j # Account(t) /\ db.users[j].login_attempts > 0

\* Thread t is constructing its handler; the construction has produced it.
Constructing(t) == call[t].op = "__init__" /\ pc[t] \notin {"idle", "done"}
Produced(t) == call[t].op = "__init__" /\ pc[t] = "done" /\ outcome[t] = "none"

\* No other thread has opened the file since the model began.
Alone(t) ==
    \A u \in Threads \ {t} :
        pc[u] = "idle" /\ conn[u] = NoConn /\ pool[HandlerOf(u)] = <<>>

\* C17: a construction on a file that opens, with none, some or all of the
\* tables, goes through create_tables without an exception and leaves the
\* five tables and users.login_attempts; on a file with all of them it
\* changes no row.
C17_SchemaSetupFromAnySchema ==
    [][\A t \in Threads :
        (/\ Constructing(t) /\ Alone(t) /\ pc'[t] # pc[t]
         /\ pc[t] \in {"create_tables:select", "create_tables:alter",
                       "create_tables:create"}) =>
            /\ pc'[t] # "done" /\ outcome'[t] = "none"
            /\ pc'[t] = "create_default_user:select" => db'.schema = FullSchema
            /\ db.schema = FullSchema => db' = db]_vars

\* The rows of users with the default username.
AdminRows(v) == {i \in 1..Len(v.users) : v.users[i].username = ADMIN}

\* C18: a produced handler finds exactly one users row with the username
\* "1", whatever other rows there are; create_default_user inserts that row
\* only when no row has the username, and changes no stored row.
C18_SeedingIdempotent ==
    /\ [](\A t \in Threads : Produced(t) => Cardinality(AdminRows(db)) = 1)
    /\ [](Cardinality(AdminRows(db)) <= 1)
    /\ [][\A t \in Threads :
            (/\ pc[t] \in {"create_default_user:select",
                           "create_default_user:insert"}
             /\ pc'[t] # pc[t]) =>
                /\ \A i \in 1..Len(db.users) : db'.users[i] = db.users[i]
                /\ Len(db'.users) \in {Len(db.users), Len(db.users) + 1}
                /\ Len(db'.users) > Len(db.users) =>
                      /\ AdminRows(db) = {}
                      /\ db'.users[Len(db'.users)].username = ADMIN
                /\ AdminRows(db) # {} => db' = db
                /\ (pc'[t] = "done" /\ outcome'[t] = "none") =>
                      Cardinality(AdminRows(db')) = 1]_vars

\* C18's case: constructed on a file whose users table held another account
\* and not the default one, the handler has added the default account
\* after it.
C18_Witness ==
    \E t \in Threads :
        /\ Produced(t)
        /\ Len(db.users) = 2
        /\ db.users[1].username = USER_B /\ db.users[2].username = ADMIN

\* A statement of the construction raises in this step of t.
ConstructionRaises(t) ==
    \/ pc[t] = "idle" /\ pc'[t] = "done" /\ call'[t].op = "__init__"
    \/ /\ pc[t] = "create_tables:alter" /\ pc'[t] # pc[t]
       /\ ("users" \notin db.schema \/ "users.login_attempts" \in db.schema)
    \/ /\ pc[t] = "create_default_user:insert" /\ pc'[t] # pc[t]
       /\ AdminRows(db) # {}

\* C19: when sqlite3.connect, a statement of create_tables or the seeding
\* raises, the construction raises RuntimeError and produces no handler; a
\* handler is produced only on a file with the five tables,
\* users.login_attempts and the default account.
C19_FailFastInitialisation ==
    /\ [](\A t \in Threads :
            /\ (call[t].op = "__init__" /\ pc[t] = "done") =>
                    outcome[t] \in {"none", "RuntimeError"}
            /\ Produced(t) =>
                    db.schema = FullSchema /\ AdminRows(db) # {})
    /\ [][\A t \in Threads :
            ConstructionRaises(t) =>
                /\ pc'[t] = "done" /\ outcome'[t] = "RuntimeError"
                /\ ~Produced(t)'
                /\ db' = db]_vars

\* C19's case: create_tables has raised on a file without tables and the
\* construction has ended in RuntimeError.
C19_Witness ==
    \E t \in Threads :
        /\ call[t].op = "__init__" /\ pc[t] = "done"
        /\ outcome[t] = "RuntimeError"
        /\ "users" \notin db.schema
        /\ pool[HandlerOf(t)] # <<>>

\* An attempt of op by some thread succeeds in this step.
Succeeds(op) ==
    \E t \in Threads :
        /\ call[t].op = op /\ pc[t] \notin {"idle", "acquire", "release", "done"}
        /\ pc'[t] = "release" /\ outcome'[t] = "none"

\* C20: a transactions row is appended only by an issue_book that succeeds,
\* with status 'issued' and return_date NULL; a stored row changes only
\* from that to 'returned' with return_date set, in a return_book that
\* succeeds and adds no row; a returned row never changes and no row is
\* deleted.  Hence status = 'returned' exactly when return_date is set, and
\* the return of the only loan leaves one row, 'returned'.
C20_LoanLifecycle ==
    /\ [](\A i \in 1..Len(db.transactions) :
            /\ db.transactions[i].status \in {"issued", "returned"}
            /\ db.transactions[i].status = "returned" <=>
                    db.transactions[i].return_date # "NULL")
    /\ [][LET old == db.transactions
              new == db'.transactions
              changed == {i \in 1..Len(old) : new[i] # old[i]}
          IN  /\ Len(new) \in {Len(old), Len(old) + 1}
              /\ Len(new) > Len(old) =>
                    /\ Succeeds("issue_book")
                    /\ changed = {}
                    /\ new[Len(new)].status = "issued"
                    /\ new[Len(new)].return_date = "NULL"
              /\ changed # {} =>
                    /\ Succeeds("return_book")
                    /\ Len(new) = Len(old)
                    /\ Cardinality(changed) = 1
                    /\ \A i \in changed :
                          /\ old[i].status = "issued" /\ old[i].return_date = "NULL"
                          /\ new[i] = [old[i] EXCEPT !.status = "returned",
                                                     !.return_date = "set"]
              /\ Succeeds("issue_book") => Len(new) = Len(old) + 1
              /\ Succeeds("return_book") => changed # {}]_vars

\* C20's case: one issue and one return have left a single row, returned;
\* the call that returned the book is about to return.
C20_Witness ==
    /\ Len(db.transactions) = 1
    /\ db.transactions[1].status = "returned"
    /\ db.transactions[1].return_date # "NULL"
    /\ \E t \in Threads :
          call[t].op = "return_book" /\ pc[t] = "release" /\ outcome[t] = "none"

\* The value of an ISBN-10 character: "X" is ten.
Isbn10Value(ch) == IF ch = "X" THEN 10 ELSE DigitValue(ch)

\* The check equations of the standard: 10 a1 + 9 a2 + ... + 1 a10 = 0 mod 11,
\* and a1 + 3 a2 + a3 + ... + 3 a12 + a13 = 0 mod 10.
RECURSIVE Isbn10Sum(_, _)
Isbn10Sum(s, n) ==
    IF n = 0 THEN 0 ELSE (11 - n) * Isbn10Value(s[n]) + Isbn10Sum(s, n - 1)
RECURSIVE Isbn13Sum(_, _)
Isbn13Sum(s, n) ==
    IF n = 0 THEN 0
    ELSE (IF n % 2 = 1 THEN 1 ELSE 3) * DigitValue(s[n]) + Isbn13Sum(s, n - 1)
Isbn10Checks(s) == Isbn10Sum(s, 10) % 11 = 0
Isbn13Checks(s) == Isbn13Sum(s, 13) % 10 = 0

\* isbn differs from other in exactly one position.
OneCharApart(isbn, other) ==
    Len(isbn) = Len(other)
        /\ Cardinality({i \in 1..Len(isbn) : isbn[i] # other[i]}) = 1

\* C22: validate_isbn accepts nine digits plus a digit or "X" exactly when
\* the check equation mod 11 holds, accepts thirteen digits exactly when the
\* check equation mod 10 holds, so that an accepted ISBN-13 with one digit
\* changed is rejected, and rejects every other length (hyphens and spaces
\* not counted).
C22_IsbnChecksum ==
    \A t \in Threads :
        (pc[t] = "done" /\ call[t].op = "validate_isbn") =>
            LET raw == call[t].raw
                s == SelectSeq(raw, LAMBDA ch : ch \notin {"-", " "})
                accepted == loc[t].result
            IN  /\ (Len(raw) = 10 /\ IsDigitStr(SubSeq(raw, 1, 9))
                        /\ raw[10] \in Digits \cup {"X"}) =>
                            (accepted <=> Isbn10Checks(raw))
                /\ (Len(raw) = 13 /\ IsDigitStr(raw)) =>
                            /\ accepted <=> Isbn13Checks(raw)
                            /\ OneCharApart(raw, ISBN_13) => ~accepted
                /\ Len(s) \notin {10, 13} => ~accepted
                /\ raw = ISBN_13 => accepted

\* C22's case: validate_isbn has accepted the nine digits 123456789 with the
\* check character "X".
C22_Witness ==
    \E t \in Threads :
        /\ pc[t] = "done" /\ call[t].op = "validate_isbn"
        /\ call[t].raw = Append(ISBN_NINE_X, "X")
        /\ loc[t].result = TRUE

\* C21: add_book, issue_book and return_book called with a 10- or
\* 13-character ISBN whose check digit does not match raise ValidationError
\* before any statement runs, so every ISBN stored in books passes the
\* checksum of validate_isbn.
C21_StoredIsbnsChecksummed ==
    /\ \A i \in 1..Len(db.books) : utils_validate_isbn(db.books[i].isbn)
    /\ \A t \in Threads :
          (/\ call[t].op \in {"add_book", "issue_book", "return_book"}
           /\ ~utils_validate_isbn(call[t].raw.isbn.s)) =>
                pc[t] = "done" /\ outcome[t] = "ValidationError"

\* C23: is_valid() returns True exactly when less than SESSION_TIMEOUT seconds
\* have passed since the session was created or last refreshed, False from
\* the SESSION_TIMEOUT-th second on; and a refresh() makes the session valid
\* again, for the SESSION_TIMEOUT seconds after it (it is valid at every time
\* from the refresh up to one second before refresh + SESSION_TIMEOUT, and
\* not at refresh + SESSION_TIMEOUT).  Elapsed is the time between the
\* creation or latest refresh and the call of is_valid() that has returned.
Elapsed == loc["t1"].at - start_time
C23_SessionExpiry ==
    /\ [](pc["t1"] = "done" /\ call["t1"].op = "is_valid" =>
            /\ Elapsed + 1 <= SESSION_TIMEOUT => loc["t1"].result = TRUE
            /\ Elapsed >= SESSION_TIMEOUT => loc["t1"].result = FALSE)
    /\ [][start_time' # start_time =>
            /\ start_time' = now /\ now' = now
            /\ \A at \in now..MaxClock :
                  LET valid == (at - start_time') < SESSION_TIMEOUT
                  IN  valid <=> at < now + SESSION_TIMEOUT]_vars
    /\ [][start_time' # start_time /\ ~is_valid => is_valid']_vars

\* C23's case: is_valid() returned False at the SESSION_TIMEOUT-th second
\* after a refresh() of a session that had expired.
C23_Witness ==
    /\ pc["t1"] = "done" /\ call["t1"].op = "is_valid"
    /\ loc["t1"].result = FALSE
    /\ start_time >= SESSION_TIMEOUT
    /\ Elapsed = SESSION_TIMEOUT

\* The calls of notify_overdue_books whose body ran in the TIME_FRAME seconds
\* up to the time at, at - TIME_FRAME excluded.
AdmittedWithin(at) == Len(SelectSeq(notified, LAMBDA c : c > at - TIME_FRAME))

\* C24: of the calls of notify_overdue_books, on whatever NotificationSystem,
\* at most MAX_CALLS are admitted in any TIME_FRAME seconds (the call admitted
\* MAX_CALLS admitted calls before another is TIME_FRAME seconds older or
\* more); a call made when MAX_CALLS admitted calls lie within the last
\* TIME_FRAME seconds raises NotificationError, its body does not run and the
\* list of counted calls gains no entry; and a call made when fewer lie
\* there is admitted: its body runs and it is counted.
C24_NotificationRateLimit ==
    /\ [](\A i \in 1..Len(notified) :
            i > MAX_CALLS => notified[i - MAX_CALLS] + TIME_FRAME <= notified[i])
    /\ [][call'["t1"].op = "notify_overdue_books" /\ pc["t1"] = "idle" =>
            IF AdmittedWithin(now) >= MAX_CALLS
            THEN /\ outcome'["t1"] = "NotificationError"
                 /\ notified' = notified
                 /\ Len(calls') <= Len(calls)
                 /\ \A i \in 1..Len(calls') : \E j \in 1..Len(calls) :
                        calls'[i] = calls[j]
            ELSE /\ outcome'["t1"] = "none"
                 /\ notified' = Append(notified, now)
                 /\ calls' # <<>> /\ calls'[Len(calls')] = now
                 /\ Len(calls') = AdmittedWithin(now) + 1]_vars

\* C24's case: a call was rejected after more than MAX_CALLS calls had been
\* admitted, the earlier ones having fallen out of the window, and the
\* MAX_CALLS within the window not all at one time.
C24_Witness ==
    /\ pc["t1"] = "done" /\ call["t1"].op = "notify_overdue_books"
    /\ outcome["t1"] = "NotificationError"
    /\ Len(notified) > MAX_CALLS
    /\ calls[1] # calls[Len(calls)]

\* C25: a book's available changes only in the step that commits a
\* successful issue_book (by -1) or return_book (by +1) for that book; the
\* steps of issue_book and return_book for a book leave every other book row,
\* the book's other columns, the member rows and the user rows as they were;
\* the steps of add_member, authenticate_user and add_user leave books and
\* transactions as they were; and no step changes the rows of loans.
C25_WriteOwnership ==
    [][LET t == "t1"
           op == call[t].op
           loan == op \in {"issue_book", "return_book"}
           Book == BookIdByIsbn(db, call[t].args.isbn)
       IN  /\ Len(db'.books) >= Len(db.books)
           /\ \A b \in 1..Len(db.books) :
                 db'.books[b].available # db.books[b].available =>
                     /\ loan
                     /\ b = Book
                     /\ db'.books[b].available =
                            db.books[b].available
                              + (IF op = "issue_book" THEN -1 ELSE 1)
                     /\ pc'[t] = "release" /\ outcome'[t] = "none"
           /\ loan =>
                 /\ Len(db'.books) = Len(db.books)
                 /\ \A b \in 1..Len(db.books) :
                       /\ b # Book => db'.books[b] = db.books[b]
                       /\ [db'.books[b] EXCEPT !.available = 0] =
                              [db.books[b] EXCEPT !.available = 0]
                 /\ db'.members = db.members
                 /\ db'.users = db.users
           /\ (op \in {"add_member", "authenticate_user"} \/ pc[t] = "idle") =>
                 /\ db'.books = db.books
                 /\ db'.transactions = db.transactions
           /\ db'.loans = db.loans]_vars

\* C25's case: with two books, a member and a second account stored and the
\* first book on loan, a return_book of the second book has committed.
C25_Witness ==
    /\ pc["t1"] = "release" /\ call["t1"].op = "return_book"
    /\ outcome["t1"] = "none"
    /\ Len(db.books) = 2 /\ Len(db.users) = 2
    /\ BookIdByIsbn(db, call["t1"].args.isbn) = 2
    /\ db.books[1].available = 0 /\ db.books[2].available = 1
    /\ \E u \in 1..Len(db.users) : db.users[u].login_attempts > 0

\* C26: a connection that is about to be put back into the pool, after the
\* operation's success or after any failure, has no open transaction and does
\* not hold the write lock, and so has every connection that waits in a pool:
\* the next caller to acquire it starts outside any transaction.
C26_NoTransactionOutlivesAcquisition ==
    /\ \A t \in Threads :
          pc[t] = "release" /\ conn[t] # NoConn =>
              txn[conn[t]] = NoTxn /\ wlock # conn[t]
    /\ \A h \in Handlers : \A i \in 1..Len(pool[h]) :
          txn[<<h, pool[h][i]>>] = NoTxn /\ wlock # <<h, pool[h][i]>>

\* C26's case: a return_book whose UPDATE met SQLITE_BUSY inside its
\* transaction has put its connection back and waits to try again.
C26_Witness ==
    \E t \in Threads :
        /\ call[t].op = "return_book" /\ pc[t] = "acquire"
        /\ attempt[t] >= 1
        /\ \E i \in 1..Len(pool[call[t].h]) :
              txn[<<call[t].h, pool[call[t].h][i]>>] = NoTxn

\* The copies out on loan of the first n books: the sum of quantity - available.
RECURSIVE CopiesOut(_)
CopiesOut(n) ==
    IF n = 0 THEN 0
    ELSE db.books[n].quantity - db.books[n].available + CopiesOut(n - 1)

\* C27: in every committed state, however add_book, issue_book and
\* return_book interleave, succeed or fail, every book has available plus
\* the number of its loan rows with return_date NULL equal to quantity; and
\* get_active_loans() is the sum over the books of quantity - available.
C27_CopiesConserved ==
    /\ \A b \in 1..Len(db.books) :
          db.books[b].available + Cardinality(OpenRows(b)) = db.books[b].quantity
    /\ get_active_loans(db) = CopiesOut(Len(db.books))

\* C27's case: a book with two copies, one of them out, after an earlier
\* loan of it was returned, while another call is in flight.
C27_Witness ==
    /\ \E b \in 1..Len(db.books) :
          /\ db.books[b].quantity = 2 /\ db.books[b].available = 1
          /\ Cardinality(OpenRows(b)) = 1
          /\ \E j \in 1..Len(db.transactions) :
                db.transactions[j].book_id = b
                /\ db.transactions[j].return_date # "NULL"
    /\ \E t \in Threads : pc[t] \notin {"idle", "acquire", "release"}

\* A step of an issue_book or return_book call of t: an attempt that raises
\* leaves the committed tables as they were; the tables change only in the
\* step that commits an attempt, which then returns, by one copy of one book
\* and by one loan row, inserted open or closed; and after an attempt that
\* returned no further attempt is made.
C28_Step(t) ==
    (call[t].op \in {"issue_book", "return_book"} /\ pc'[t] # pc[t]) =>
        /\ AttemptRaises(t) => db' = db
        /\ db' # db =>
            /\ pc'[t] = "release" /\ outcome'[t] = "none"
            /\ [db' EXCEPT !.books = <<>>, !.transactions = <<>>] =
                   [db EXCEPT !.books = <<>>, !.transactions = <<>>]
            /\ \E b \in 1..Len(db.books) :
                  IF call[t].op = "issue_book"
                  THEN /\ db'.books = [db.books EXCEPT ![b].available = @ - 1]
                       /\ db'.transactions =
                              Append(db.transactions,
                                     OpenRow(call[t].args.member_id, b))
                  ELSE /\ db'.books = [db.books EXCEPT ![b].available = @ + 1]
                       /\ \E i \in OpenRows(b) :
                             db'.transactions =
                                 [db.transactions EXCEPT
                                     ![i].return_date = "set",
                                     ![i].status = "returned"]
        /\ Leaves(t, "none") => pc'[t] = "idle"
        /\ pc'[t] = "acquire" =>
              \/ pc[t] = "idle"
              \/ Leaves(t, LOCKED) /\ attempt'[t] = attempt[t] + 1

\* C28: an issue_book or return_book call that returns after one or two of
\* its attempts raised "database is locked" has changed available by exactly
\* 1 and inserted, or closed, exactly one loan row, in its last attempt; and
\* a call whose attempts all raised has changed nothing.
C28_RetriesApplyOnce == [][\A t \in Threads : C28_Step(t)]_vars

\* C28's case: a return_book has committed in its third attempt, after two
\* that found the database locked.
C28_Witness ==
    \E t \in Threads :
        /\ call[t].op = "return_book" /\ pc[t] = "release"
        /\ outcome[t] = "none" /\ attempt[t] = 2
        /\ \E i \in 1..Len(db.transactions) :
              db.transactions[i].return_date = "set"

\* The step in which an attempt of a return_book call of t returns: the
\* member had an open loan row of the book in the committed tables, the step
\* closes one and adds one to available, which stays within quantity.
C29_Step(t) ==
    (/\ call[t].op = "return_book"
     /\ pc[t] # "release" /\ pc'[t] = "release" /\ outcome'[t] = "none") =>
        LET m == call[t].args.member_id
            b == BookIdByIsbn(db, call[t].args.isbn)
        IN  /\ b # 0
            /\ OpenRowsOf(m, b) # {}
            /\ Cardinality(OpenRowsOf(m, b))' = Cardinality(OpenRowsOf(m, b)) - 1
            /\ db'.books[b].available = db.books[b].available + 1
            /\ db'.books[b].available <= db.books[b].quantity

\* C29: of two return_book calls that run concurrently, on connections of
\* different pools, for a member and a book with one open loan row, at most
\* one returns and available increases by exactly 1: every return_book that
\* returns closes a row that was open in the committed tables, so the second
\* finds none; available never exceeds quantity.
C29_ConcurrentReturns == [][\A t \in Threads : C29_Step(t)]_vars

\* C29's case: both calls read the one open loan row; one has committed its
\* return, the other is about to update on the snapshot it read before.
C29_Witness ==
    \E t, u \in Threads :
        /\ t # u
        /\ call[t].op = "return_book" /\ call[u].op = "return_book"
        /\ call[t].h # call[u].h
        /\ pc[t] = "release" /\ outcome[t] = "none"
        /\ pc[u] = "return_book:update"
        /\ txn[conn[u]].mode = "read" /\ txn[conn[u]].view # db
        /\ Len(db.transactions) = 1
        /\ db.transactions[1].return_date = "set"
        /\ txn[conn[u]].view.transactions[1].return_date = "NULL"

\* C30: a thread holds at most one pooled connection, none while it waits
\* for one, so none over the sleep before a retry; and under fair scheduling
\* every thread waiting for a connection gets one and every call returns or
\* raises.
C30_NoCallerWaitsForever ==
    /\ [](\A t \in Threads : pc[t] \in {"idle", "acquire"} => conn[t] = NoConn)
    /\ \A t \in Threads :
          /\ (pc[t] = "acquire") ~> (pc[t] # "acquire" /\ conn[t] # NoConn)
          /\ (pc[t] # "idle") ~> (pc[t] = "idle")

\* C30's case: a thread waits for the one connection of a pool that another
\* thread holds, before its second attempt.
C30_Witness ==
    \E t, u \in Threads :
        /\ t # u
        /\ pc[t] = "acquire" /\ attempt[t] >= 1
        /\ pool[call[t].h] = <<>>
        /\ conn[u] # NoConn /\ conn[u][1] = call[t].h

====
